---- MODULE Spec2Model ----
(***************************************************************************)
(* A model of knowledge-mcp: the knowledge documents (frontmatter + body), *)
(* their segmentation into chapters, the tools that create, update and     *)
(* delete them, the atomic write protocol of write_document, the change    *)
(* tracking by git and the project index.                                  *)
(*                                                                         *)
(* Texts are TLA+ strings; TLC evaluates Len, \o, SubSeq, Head and Tail on *)
(* them, so Python's str operations are modelled character by character.   *)
(* Indices follow the Sequences module (1-based); where the code works     *)
(* with Python's 0-based offsets (str.find, slices) the operators keep the *)
(* 0-based value and say so.                                               *)
(***************************************************************************)
EXTENDS Integers, Sequences, FiniteSets, TLC

(***************************************************************************)
(* Python str helpers                                                      *)
(***************************************************************************)

\* The characters Python's str.strip() and the regex class \s remove that
\* occur in the modelled texts.
Whitespace == {" ", "\n", "\t"}

Ch(s, i) == SubSeq(s, i, i)

RECURSIVE LStrip(_)
LStrip(s) ==
  IF Len(s) > 0 /\ Ch(s, 1) \in Whitespace THEN LStrip(Tail(s)) ELSE s

RECURSIVE RStrip(_)
RStrip(s) ==
  IF Len(s) > 0 /\ Ch(s, Len(s)) \in Whitespace
  THEN RStrip(SubSeq(s, 1, Len(s) - 1))
  ELSE s

\* str.strip()
Strip(s) == LStrip(RStrip(s))

\* str.startswith(pre)
StartsWith(s, pre) ==
  Len(pre) <= Len(s) /\ SubSeq(s, 1, Len(pre)) = pre

\* str.find(sub, start): the 0-based offset of the first occurrence of sub at
\* or after the 0-based offset start, -1 when there is none.
RECURSIVE FindFrom(_, _, _)
FindFrom(s, sub, start) ==
  IF start + Len(sub) > Len(s) THEN -1
  ELSE IF SubSeq(s, start + 1, start + Len(sub)) = sub THEN start
  ELSE FindFrom(s, sub, start + 1)

\* str.find(sub)
Find(s, sub) == FindFrom(s, sub, 0)

\* sub in s
Contains(s, sub) == Find(s, sub) >= 0

\* s[:n] for a 0-based offset n >= 0
Prefix(s, n) == SubSeq(s, 1, n)

\* s[n:] for a 0-based offset n >= 0
Suffix(s, n) == SubSeq(s, n + 1, Len(s))

\* str.split(sep) for a one-character separator: always at least one piece.
RECURSIVE Split(_, _)
Split(s, sep) ==
  LET i == Find(s, sep) IN
  IF i < 0 THEN <<s>>
  ELSE <<Prefix(s, i)>> \o Split(Suffix(s, i + 1), sep)

\* sep.join(parts)
RECURSIVE Join(_, _)
Join(parts, sep) ==
  IF Len(parts) = 0 THEN ""
  ELSE IF Len(parts) = 1 THEN parts[1]
  ELSE parts[1] \o sep \o Join(Tail(parts), sep)

\* The number of leading "#" characters of a line.
RECURSIVE LeadingHashes(_)
LeadingHashes(line) ==
  IF Len(line) > 0 /\ Ch(line, 1) = "#" THEN 1 + LeadingHashes(Tail(line)) ELSE 0

\* str.replace(old, new): every occurrence, left to right, not overlapping.
RECURSIVE ReplaceAll(_, _, _)
ReplaceAll(s, old, new) ==
  LET i == Find(s, old) IN
  IF i < 0 THEN s
  ELSE Prefix(s, i) \o new \o ReplaceAll(Suffix(s, i + Len(old)), old, new)

\* str.strip(chars) for a set of characters.
RECURSIVE StripChars(_, _)
StripChars(s, chars) ==
  IF Len(s) > 0 /\ Ch(s, 1) \in chars THEN StripChars(Tail(s), chars)
  ELSE IF Len(s) > 0 /\ Ch(s, Len(s)) \in chars
  THEN StripChars(SubSeq(s, 1, Len(s) - 1), chars)
  ELSE s

\* str.lstrip(chars) for a set of characters.
RECURSIVE LStripChars(_, _)
LStripChars(s, chars) ==
  IF Len(s) > 0 /\ Ch(s, 1) \in chars THEN LStripChars(Tail(s), chars) ELSE s

UpperCase == "ABCDEFGHIJKLMNOPQRSTUVWXYZ"
LowerCase == "abcdefghijklmnopqrstuvwxyz"
Digits == "0123456789"

\* str.lower() of one character.
LowerOf ==
  [c \in {Ch(UpperCase, i) : i \in 1..Len(UpperCase)} |->
     Ch(LowerCase, Find(UpperCase, c) + 1)]
LowerChar(c) == IF c \in DOMAIN LowerOf THEN LowerOf[c] ELSE c

\* str.lower()
RECURSIVE Lower(_)
Lower(s) == IF Len(s) = 0 THEN "" ELSE LowerChar(Ch(s, 1)) \o Lower(Tail(s))

\* The regex class \w on ASCII text.
IsWord(c) ==
  Contains(UpperCase, c) \/ Contains(LowerCase, c) \/ Contains(Digits, c)
    \/ c = "_"

(***************************************************************************)
(* utils.py: slugify                                                       *)
(***************************************************************************)

\* unidecode of one character: ASCII characters stay, the other characters
\* of the modelled texts get their transliteration.
UnidecodeChar(c) ==
  CASE c = "é" -> "e"
    [] c = "ü" -> "u"
    [] c = "ß" -> "ss"
    [] OTHER -> c

RECURSIVE unidecode(_)
unidecode(s) ==
  IF Len(s) = 0 THEN "" ELSE UnidecodeChar(Ch(s, 1)) \o unidecode(Tail(s))

\* re.sub(r"[^\w\s-]", "-", name), one character.
SpecialToHyphen(c) ==
  IF IsWord(c) \/ c \in Whitespace \/ c = "-" THEN c ELSE "-"

\* re.sub(r"[^\w\s-]", "-", name)
RECURSIVE SpecialsToHyphens(_)
SpecialsToHyphens(s) ==
  IF Len(s) = 0 THEN ""
  ELSE SpecialToHyphen(Ch(s, 1)) \o SpecialsToHyphens(Tail(s))

\* re.sub(r"[-\s]+", "-", name): every run of hyphens and whitespace becomes
\* one hyphen.
RECURSIVE CollapseHyphens(_)
CollapseHyphens(s) ==
  IF Len(s) = 0 THEN ""
  ELSE IF Ch(s, 1) \in Whitespace \cup {"-"}
  THEN "-" \o CollapseHyphens(LStripChars(s, Whitespace \cup {"-"}))
  ELSE Ch(s, 1) \o CollapseHyphens(Tail(s))

\* while "__" in text: text = text.replace("__", "_")
RECURSIVE CollapseUnderscores(_)
CollapseUnderscores(text) ==
  IF Contains(text, "__")
  THEN CollapseUnderscores(ReplaceAll(text, "__", "_"))
  ELSE text

\* slugify: the text after the replacements of path separators, ".." and
\* the dot patterns, with the underscores collapsed and stripped.
SlugCleaned(text) ==
  LET t1 == ReplaceAll(ReplaceAll(text, "/", "_"), "\\", "_")
      t2 == ReplaceAll(t1, "..", "")
      t3 == ReplaceAll(ReplaceAll(ReplaceAll(t2, "_._", "_"), "._", "_"),
                       "_.", "_")
  IN StripChars(CollapseUnderscores(t3), {"_"})

\* slugify: the name made of a cleaned text.
SlugName(text) ==
  LET name == Lower(StripChars(
                CollapseHyphens(SpecialsToHyphens(unidecode(text))),
                {"-", "."}))
  IN IF name = "" THEN "untitled" ELSE name

slugify(text) ==
  IF text = "" \/ Strip(text) = "" THEN "untitled"
  ELSE LET cleaned == SlugCleaned(text) IN
       IF cleaned = "" \/ StripChars(cleaned, {"_", "."}) = ""
       THEN "untitled"
       ELSE SlugName(cleaned)

(***************************************************************************)
(* documents.py: parse_document, parse_chapters                            *)
(***************************************************************************)

\* The length above which the summary loop of parse_chapters stops.
SummaryLimit == 100

\* re.match(r"^(#{2,4})\s+(.+)$", line): the heading level (the number of
\* "#"), 0 when the line does not match. After 2 to 4 "#" the regex needs a
\* whitespace character and at least one more character of any kind, so a
\* fifth "#" or a bare "## " does not match.
HeaderLevel(line) ==
  LET n == LeadingHashes(line) IN
  IF n >= 2 /\ n <= 4 /\ Len(line) >= n + 2 /\ Ch(line, n + 1) \in Whitespace
  THEN n
  ELSE 0

\* header_match.group(2).strip()
HeaderTitle(line) == Strip(Suffix(line, LeadingHashes(line)))

\* The summary loop of parse_chapters over content_lines from (1-based) line
\* j on, with the summary lines accumulated so far.
RECURSIVE SummaryLoop(_, _, _)
SummaryLoop(content_lines, j, summary_lines) ==
  IF j > Len(content_lines) THEN summary_lines
  ELSE
    LET cl == Strip(content_lines[j]) IN
    IF cl = "" /\ Len(summary_lines) > 0 THEN summary_lines
    ELSE IF cl = "" THEN SummaryLoop(content_lines, j + 1, summary_lines)
    ELSE
      LET acc == Append(summary_lines, cl) IN
      IF j + 1 <= Len(content_lines) /\ Strip(content_lines[j + 1]) = "" THEN acc
      ELSE IF Len(Join(acc, " ")) > SummaryLimit THEN acc
      ELSE SummaryLoop(content_lines, j + 1, acc)

\* The summary of a chapter from its lines (the heading line first).
ChapterSummary(chapter_lines) ==
  Join(SummaryLoop(Tail(chapter_lines), 1, <<>>), " ")

\* A parse_chapters that saves the lines after the heading line only.
SaveChapterBelowHeading(chapter_lines) ==
  [title   |-> HeaderTitle(chapter_lines[1]),
   level   |-> HeaderLevel(chapter_lines[1]),
   summary |-> ChapterSummary(chapter_lines),
   content |-> Join(Tail(chapter_lines), "\n")]

\* A chapter as parse_chapters saves it.
SaveChapter(chapter_lines) ==
  [title   |-> HeaderTitle(chapter_lines[1]),
   level   |-> HeaderLevel(chapter_lines[1]),
   summary |-> ChapterSummary(chapter_lines),
   content |-> Join(chapter_lines, "\n")]

\* The loop of parse_chapters over the lines from i on: chapters are the
\* chapters saved so far, chapter_lines the lines of the current chapter
\* (empty while no heading has been seen).
RECURSIVE ChapterLoop(_, _, _, _)
ChapterLoop(lines, i, chapters, chapter_lines) ==
  IF i > Len(lines)
  THEN IF Len(chapter_lines) > 0
       THEN Append(chapters, SaveChapter(chapter_lines))
       ELSE chapters
  ELSE IF HeaderLevel(lines[i]) > 0
  THEN ChapterLoop(lines, i + 1,
                   IF Len(chapter_lines) > 0
                   THEN Append(chapters, SaveChapter(chapter_lines))
                   ELSE chapters,
                   <<lines[i]>>)
  ELSE ChapterLoop(lines, i + 1, chapters,
                   IF Len(chapter_lines) > 0
                   THEN Append(chapter_lines, lines[i])
                   ELSE chapter_lines)

parse_chapters(content) ==
  IF Strip(content) = "" THEN <<>>
  ELSE ChapterLoop(Split(content, "\n"), 1, <<>>, <<>>)

(***************************************************************************)
(* server.py: the body texts create_knowledge_file and update_chapter      *)
(* build                                                                   *)
(***************************************************************************)

\* The absent optional argument (new_summary=None).
None == "<None>"

\* create_knowledge_file: the content parts of the chapters from k on; each
\* chapter is a record [title, content] as the caller supplies it.
RECURSIVE ChapterParts(_, _)
ChapterParts(chapters, k) ==
  IF k > Len(chapters) THEN <<>>
  ELSE <<"## " \o chapters[k].title, "", chapters[k].content, "">>
       \o ChapterParts(chapters, k + 1)

\* create_knowledge_file: the document content built from the introduction
\* and the chapters.
CreateContent(introduction, chapters) ==
  Strip(Join(<<introduction, "">> \o ChapterParts(chapters, 1), "\n"))

\* A loop that sets chapter_found outside the title test: true for every
\* document that has a chapter.
ChapterFoundAny(chapters, chapter_title) == Len(chapters) > 0

\* update_chapter: whether the loop over the chapters sets chapter_found.
ChapterFound(chapters, chapter_title) ==
  \E k \in 1..Len(chapters) : chapters[k].title = chapter_title

\* update_chapter: the chapter the loop appends to updated_chapters for a
\* chapter of the document.
UpdatedChapter(chapter, chapter_title, new_content, new_summary) ==
  IF chapter.title = chapter_title
  THEN [title   |-> chapter.title,
        level   |-> chapter.level,
        content |-> "## " \o chapter.title \o "\n\n" \o new_content,
        summary |-> IF new_summary = None \/ new_summary = ""
                    THEN chapter.summary
                    ELSE new_summary]
  ELSE chapter

\* update_chapter: updated_chapters, the loop over all the chapters (the loop
\* has no break: it visits every chapter).
UpdatedChapters(chapters, chapter_title, new_content, new_summary) ==
  [k \in 1..Len(chapters) |->
     UpdatedChapter(chapters[k], chapter_title, new_content, new_summary)]

\* update_chapter: the body parts that hold the content before the first
\* chapter.
IntroParts(body, chapters) ==
  IF Len(chapters) > 0 /\ StartsWith(body, chapters[1].content)
  THEN <<>>
  ELSE
    LET first_chapter_pos ==
          IF Len(chapters) > 0 THEN Find(body, chapters[1].content)
          ELSE Len(body)
        intro == Strip(Prefix(body, first_chapter_pos))
    IN IF intro # "" THEN <<intro, "">> ELSE <<>>

\* update_chapter: the body parts of the updated chapters from k on.
RECURSIVE UpdatedParts(_, _)
UpdatedParts(updated_chapters, k) ==
  IF k > Len(updated_chapters) THEN <<>>
  ELSE <<Strip(updated_chapters[k].content), "">>
       \o UpdatedParts(updated_chapters, k + 1)

\* update_chapter: new_body, for a body in which the chapter was found.
NewBody(body, chapter_title, new_content, new_summary) ==
  LET chapters == parse_chapters(body)
      updated_chapters ==
        UpdatedChapters(chapters, chapter_title, new_content, new_summary)
  IN Strip(Join(IntroParts(body, chapters) \o UpdatedParts(updated_chapters, 1),
                "\n"))

(***************************************************************************)
(* documents.py and utils.py: the codec and the change tracking            *)
(***************************************************************************)

\* The three ways a git invocation of auto_commit ends: git runs and exits
\* with 0; git runs and exits with another status (a failed command, or a
\* storage that is no repository), which subprocess.run(check=True) raises
\* as CalledProcessError; git cannot be started, which subprocess.run raises
\* as an OSError (FileNotFoundError).
GitOutcomes == {"ok", "exit_nonzero", "cannot_start"}

\* auto_commit: TRUE when the call returns, FALSE when it raises. The except
\* clause names subprocess.CalledProcessError only.
AutoCommitReturns(git) == git \in {"ok", "exit_nonzero"}

\* frontmatter.dumps(post): the text is assembled from the metadata and the
\* content and stripped, which removes the content's trailing whitespace.
\* The stored file is modelled as the pair the text encodes.
FrontmatterDumps(metadata, content) ==
  [exists |-> TRUE, meta |-> metadata, body |-> RStrip(content)]

\* parse_document: frontmatter.loads returns the metadata and the stripped
\* content.
parse_document(file) == [metadata |-> file.meta, body |-> Strip(file.body)]

\* No file at the path.
NoMeta == [title |-> "", keywords |-> <<>>, created |-> 0, updated |-> 0]
NoDoc == [exists |-> FALSE, meta |-> NoMeta, body |-> ""]

\* list_chapters_resource: the chapter list of the response for an existing
\* file.
list_chapters_resource(file) ==
  LET chapters == parse_chapters(parse_document(file).body) IN
  [k \in 1..Len(chapters) |->
     [title   |-> chapters[k].title,
      level   |-> chapters[k].level,
      summary |-> chapters[k].summary]]

(***************************************************************************)
(* State                                                                   *)
(***************************************************************************)

VARIABLES
  \* the environment of every tool call
  git,    \* how the git invocations of this installation end
  clock,  \* datetime.now(), a counter that every tool call advances
  \* the document tools (SpecDoc)
  doc,    \* the knowledge file of the document tools: NoDoc, or the stored
          \* metadata and body
  last,   \* the last tool call: its name, arguments, the file before the
          \* call and the response
  \* the write protocol under concurrent callers (SpecWrite)
  names,      \* the knowledge directory: file name -> inode, 0 for no entry
  inodes,     \* inode -> content; an inode lives on while a caller holds it
  pc,         \* caller -> the place its tool call has reached
  loc,        \* caller -> the locals of its tool call
  calls,      \* the number of tool calls started
  published,  \* the document versions that os.replace put at the final path
  \* the files the tools reach through caller-supplied filenames (SpecPath)
  tree,       \* path -> file, NoDoc for no file
  plast,      \* the last tool call: name, filename, the tree before the call,
              \* the paths it made file system calls on, the response
  \* the project index under concurrent callers (SpecIndex)
  indexNames,   \* the storage directory: "index.json", "index.json.tmp" ->
                \* inode, 0 for no entry
  indexInodes,  \* inode -> content of an index file
  ipc,          \* caller -> the place its get_project_directory has reached
  iloc,         \* caller -> the locals of its get_project_directory
  icalls,       \* the number of get_project_directory calls started
  given,        \* the (project_id, directory name) pairs that calls returned
  \* the main instructions of the projects (SpecMain)
  storage,    \* the project index and the main.md files by directory name
  mlast,      \* the last tool call: name, arguments, the files before the
              \* call and the response
  \* the corpus of a project and its search (SpecSearch)
  corpus,     \* the project directory: whether it exists, and its knowledge
              \* files by name
  slast       \* the last tool call: name, arguments, the corpus before the
              \* call and the response

docVars == <<doc, last>>
writeVars == <<names, inodes, pc, loc, calls, published>>
pathVars == <<tree, plast>>
indexVars == <<indexNames, indexInodes, ipc, iloc, icalls, given>>
mainVars == <<storage, mlast>>
searchVars == <<corpus, slast>>

\* The variables that the tool calls of one specification leave alone.
notDoc == <<writeVars, pathVars, indexVars, mainVars, searchVars>>
notWrite == <<docVars, pathVars, indexVars, mainVars, searchVars>>
notPath == <<docVars, writeVars, indexVars, mainVars, searchVars>>
notIndex == <<docVars, writeVars, pathVars, mainVars, searchVars>>
notMain == <<docVars, writeVars, pathVars, searchVars>>
notSearch == <<docVars, writeVars, pathVars, indexVars, mainVars>>

vars == <<git, clock, doc, last, names, inodes, pc, loc, calls, published,
          tree, plast, indexNames, indexInodes, ipc, iloc, icalls, given,
          storage, mlast, corpus, slast>>

\* Tool responses.
Ok(message) == [success |-> TRUE, error |-> "", message |-> message]
Failure(error) == [success |-> FALSE, error |-> error, message |-> ""]

(***************************************************************************)
(* The write protocol: files, callers                                      *)
(***************************************************************************)

\* The number of concurrent callers (server processes on one storage).
NumCallers == 2

\* The number of tool calls of a run of SpecWrite.
MaxWriteCalls == 2

\* The number of pieces in which a document's text reaches the file.
DocChunks == 2

Callers == 1..NumCallers
CallIds == 1..MaxWriteCalls

\* File names of the knowledge directory: the document, and the name
\* NamedTemporaryFile gives the file of the write_document call c (a fresh
\* name "tmp........" for every call, never one that ends in ".md").
DocName == <<"doc.md", 0>>
TmpFile(c) == <<"tmp", c>>
FileNames == {DocName} \cup {TmpFile(c) : c \in CallIds}

\* File contents: the document version (0 the document of the initial state,
\* c the document that call c writes) and the number of its pieces present.
Content(ver, chunks) == [ver |-> ver, chunks |-> chunks]
NoContent == Content(0 - 1, 0)

IdleLocals ==
  [op |-> "none", call |-> 0, fd |-> 0, wfd |-> 0, seen |-> NoContent,
   wfailed |-> FALSE, resp |-> Ok("")]

\* The state of the write protocol before any call, with the document in
\* place.
WriteIdle ==
  /\ names = [n \in FileNames |-> IF n = DocName THEN 1 ELSE 0]
  /\ inodes = [i \in 1..(MaxWriteCalls + 1) |->
                 IF i = 1 THEN Content(0, DocChunks) ELSE NoContent]
  /\ pc = [p \in Callers |-> "idle"]
  /\ loc = [p \in Callers |-> IdleLocals]
  /\ calls = 0
  /\ published = {0}

(***************************************************************************)
(* Paths: the files a caller-supplied filename reaches                     *)
(***************************************************************************)

\* STORAGE_PATH, the directory of the project "p" that the index holds, and
\* its knowledge directory (project_path / "knowledge").
Storage == "/s"
ProjectDir == Storage \o "/projects/p"
KnowledgeDir == ProjectDir \o "/knowledge"

\* pathlib's base / name: an absolute name replaces the base.
PathJoin(base, name) ==
  IF StartsWith(name, "/") THEN name ELSE base \o "/" \o name

\* The components of the file a path names, as the operating system walks
\* them: "" and "." stay in place, ".." leaves the directory. (Every
\* directory the modelled paths name exists and none is a symbolic link.)
RECURSIVE WalkPath(_, _)
WalkPath(components, walked) ==
  IF Len(components) = 0 THEN walked
  ELSE LET c == Head(components) IN
       WalkPath(Tail(components),
                IF c = "" \/ c = "." THEN walked
                ELSE IF c = ".."
                THEN (IF Len(walked) = 0 THEN walked
                      ELSE SubSeq(walked, 1, Len(walked) - 1))
                ELSE Append(walked, c))

\* The file that a file system call on an absolute path reaches.
ResolvePath(path) == "/" \o Join(WalkPath(Split(path, "/"), <<>>), "/")

\* file_path of update_chapter, delete_knowledge_file and the chapters
\* resource: knowledge_path / filename, the filename as the caller gave it.
FilePath(filename) == ResolvePath(PathJoin(KnowledgeDir, filename))

\* str.lower().endswith(".md")
EndsWithMd(filename) ==
  Len(filename) >= 3 /\ Lower(Suffix(filename, Len(filename) - 3)) = ".md"

\* A create_knowledge_file that slugifies the filename as given, suffix
\* included.
SafeFilenameWithSuffix(filename) == slugify(filename) \o ".md"

\* create_knowledge_file: safe_filename.
SafeFilename(filename) ==
  IF EndsWithMd(filename)
  THEN slugify(Prefix(filename, Len(filename) - 3)) \o ".md"
  ELSE slugify(filename) \o ".md"

\* file_path of create_knowledge_file.
CreatePath(filename) ==
  ResolvePath(PathJoin(KnowledgeDir, SafeFilename(filename)))

\* Caller-supplied filenames: a document of the project, a name without a
\* file, names with a traversal sequence, an absolute name, a name with an
\* upper-case suffix and one with a doubled suffix.
MainFile == ProjectDir \o "/main.md"
OtherDoc == Storage \o "/projects/q/knowledge/doc.md"
Filenames ==
  {"doc.md", "new.md", "../main.md", "../../q/knowledge/doc.md", OtherDoc,
   "New.MD", "a.md.md"}

\* Every path the modelled calls can reach.
Paths ==
  {FilePath(f) : f \in Filenames} \cup {CreatePath(f) : f \in Filenames}

\* A file without frontmatter, as main_file.write_text leaves main.md.
PlainFile(text) == [exists |-> TRUE, meta |-> NoMeta, body |-> text]

\* The tree before any call: the project's main.md, its document doc.md and
\* the document of another project.
InitialTree ==
  [path \in Paths |->
     IF path = MainFile THEN PlainFile("m\n\n## A\n\nx")
     ELSE IF path \in {FilePath("doc.md"), OtherDoc}
     THEN FrontmatterDumps([title |-> "Doc", keywords |-> <<"kw">>,
                            created |-> 0, updated |-> 0], "i\n\n## A\n\nc")
     ELSE NoDoc]

NoPathCall ==
  [op |-> "none", filename |-> "", pre |-> InitialTree, accessed |-> {},
   resp |-> Ok(""), chapters |-> <<>>]

PathIdle ==
  /\ tree = InitialTree
  /\ plast = NoPathCall

(***************************************************************************)
(* The project index: files, callers                                       *)
(***************************************************************************)

\* The number of get_project_directory calls of a run of SpecIndex.
MaxIndexCalls == 2

IndexCallIds == 1..MaxIndexCalls

\* An index is a set of (project_id, directory name) pairs with one pair
\* per project_id, Python's dict.
IndexKeys(index) == {e[1] : e \in index}
IndexValues(index) == {e[2] : e \in index}
IndexGet(index, project_id) ==
  (CHOOSE e \in index : e[1] = project_id)[2]

\* The length of json.dump({"projects": index}, f, indent=2,
\* sort_keys=True) for an index with at least one entry of ASCII names:
\* 22 characters of frame and 12 for every entry besides the two names.
JsonFrame == 22
JsonEntry == 12
RECURSIVE JsonSize(_)
JsonSize(index) ==
  IF index = {} THEN JsonFrame
  ELSE LET e == CHOOSE x \in index : TRUE IN
       JsonEntry + Len(e[1]) + Len(e[2]) + JsonSize(index \ {e})

\* The content of an index file: the index its text encodes when the text
\* is a JSON document (valid), and the length of the text.
IndexContent(index) ==
  [projects |-> index, size |-> JsonSize(index), valid |-> TRUE]
EmptyFile == [projects |-> {}, size |-> 0, valid |-> FALSE]
Garbled(size) == [projects |-> {}, size |-> size, valid |-> FALSE]

IndexIdleLocals ==
  [project_id |-> "", call |-> 0, index |-> {}, slugified |-> "", fd |-> 0,
   resp |-> Ok("")]

\* The state of the index before any call: the storage has no index.json.
IndexIdle ==
  /\ indexNames = [n \in {"index.json", "index.json.tmp"} |-> 0]
  /\ indexInodes = [i \in IndexCallIds |-> EmptyFile]
  /\ ipc = [p \in Callers |-> "idle"]
  /\ iloc = [p \in Callers |-> IndexIdleLocals]
  /\ icalls = 0
  /\ given = {}

(***************************************************************************)
(* The document tools, one call at a time (SpecDoc)                        *)
(*                                                                         *)
(* One project that the index already holds and one knowledge file name;   *)
(* every tool call runs from its first line to its return.                 *)
(***************************************************************************)

\* The number of tool calls of a run.
MaxCalls == 3

\* Caller-supplied texts.
Introductions == {"", "i", "x ## A"}
NewContents == {"n", "n\n## B\nm"}
NewSummaries == {None, "s"}
UpdateTitles == {"A", "B"}
KeywordLists == {<<>>, <<"kw">>}

Chapter(title, content) == [title |-> title, content |-> content]

\* Caller-supplied chapter lists: none, one chapter with and without
\* content, two chapters, two chapters of the same title, and a chapter
\* whose title is a blank.
ChapterLists ==
  { <<>>,
    <<Chapter("A", "c")>>,
    <<Chapter("A", "")>>,
    <<Chapter("A", "c"), Chapter("B", "d")>>,
    <<Chapter("B", "c"), Chapter("A", "d")>>,
    <<Chapter("A", "c"), Chapter("A", "d")>>,
    <<Chapter("B", "c"), Chapter(" ", ""), Chapter("A", "d")>> }

\* str(e) of the OSError subprocess.run raises when git cannot be started.
GitError == "[Errno 2] No such file or directory: 'git'"

\* The response of a tool whose file change is applied and whose auto_commit
\* call then meets the git outcome: an exception auto_commit lets through
\* reaches the tool's "except Exception".
AfterCommit(message) ==
  IF AutoCommitReturns(git) THEN Ok(message) ELSE Failure(GitError)

\* A handler's outcome for the file at its file_path: the file after the
\* call and the response.
Outcome(file, resp) == [file |-> file, resp |-> resp]

\* create_knowledge_file from the keywords check on, for the file at
\* file_path and the stored name safe_filename.
CreateOutcome(file, safe_filename, introduction, keywords, chapters) ==
  IF Len(keywords) = 0
  THEN Outcome(file, Failure("At least one keyword is required"))
  ELSE IF file.exists
  THEN Outcome(file, Failure("File already exists: " \o safe_filename))
  ELSE Outcome(FrontmatterDumps(
                 [title |-> "Doc", keywords |-> keywords,
                  created |-> clock, updated |-> clock],
                 CreateContent(introduction, chapters)),
               AfterCommit("Knowledge document created successfully"))

\* update_chapter from the exists check on, for the file at file_path.
UpdateOutcome(file, filename, chapter_title, new_content, new_summary) ==
  LET parsed == parse_document(file)
      chapters == parse_chapters(parsed.body)
  IN
  IF ~file.exists
  THEN Outcome(file, Failure("File not found: " \o filename))
  ELSE IF ~ChapterFound(chapters, chapter_title)
  THEN Outcome(file, Failure("Chapter not found: " \o chapter_title))
  ELSE Outcome(FrontmatterDumps(
                 [parsed.metadata EXCEPT !.updated = clock],
                 NewBody(parsed.body, chapter_title, new_content,
                         new_summary)),
               AfterCommit("Chapter '" \o chapter_title
                             \o "' updated successfully"))

\* delete_knowledge_file from the exists check on, for the file at
\* file_path.
DeleteOutcome(file, filename) ==
  IF ~file.exists
  THEN Outcome(file, Failure("File not found: " \o filename))
  ELSE Outcome(NoDoc, AfterCommit("Knowledge document '" \o filename
                                    \o "' deleted successfully"))

Call(op, args, resp) ==
  [op |-> op, args |-> args, pre |-> doc, resp |-> resp]

NoArgs == [none |-> 0]

\* create_knowledge_file(project_id, filename, title, introduction, keywords,
\* chapters)
CreateKnowledgeFile(introduction, keywords, chapters) ==
  /\ clock <= MaxCalls
  /\ clock' = clock + 1
  /\ \E out \in {CreateOutcome(doc, "doc.md", introduction, keywords,
                                chapters)} :
        /\ doc' = out.file
        /\ last' = Call("create_knowledge_file",
                        [introduction |-> introduction,
                         keywords |-> keywords,
                         chapters |-> chapters], out.resp)
  /\ UNCHANGED <<git, notDoc>>

\* update_chapter(project_id, filename, chapter_title, new_content,
\* new_summary)
UpdateChapter(chapter_title, new_content, new_summary) ==
  /\ clock <= MaxCalls
  /\ clock' = clock + 1
  /\ \E out \in {UpdateOutcome(doc, "doc.md", chapter_title, new_content,
                                new_summary)} :
        /\ doc' = out.file
        /\ last' = Call("update_chapter",
                        [chapter_title |-> chapter_title,
                         new_content |-> new_content,
                         new_summary |-> new_summary], out.resp)
  /\ UNCHANGED <<git, notDoc>>

\* delete_knowledge_file(project_id, filename)
DeleteKnowledgeFile ==
  /\ clock <= MaxCalls
  /\ clock' = clock + 1
  /\ \E out \in {DeleteOutcome(doc, "doc.md")} :
        /\ doc' = out.file
        /\ last' = Call("delete_knowledge_file", NoArgs, out.resp)
  /\ UNCHANGED <<git, notDoc>>

\* The state of the main instructions before any call: the storage has no
\* index and no project directory.
NoMainCall ==
  [op |-> "none", project_id |-> "", content |-> "", pre |-> {},
   resp |-> [exists |-> FALSE, success |-> FALSE, content |-> "",
             error |-> None, message |-> ""]]
MainIdle ==
  /\ storage = [index |-> {}, mains |-> {}]
  /\ mlast = NoMainCall

\* The state of the corpus before any call: the index does not hold the
\* project_id and the project has no directory. A corpus is the project
\* directory: whether the index holds the project_id, whether the directory
\* and its knowledge directory exist, the knowledge files by name and the
\* names of the files parse_document rejects.
CorpusNames == {"doc.md", "two.md", "bad.md"}
NoCorpus ==
  [registered |-> FALSE, exists |-> FALSE, knowledge |-> FALSE,
   files |-> [n \in CorpusNames |-> NoDoc], malformed |-> {}]
NoSearchCall ==
  [op |-> "none", query |-> "", chapters |-> <<>>, chapter_title |-> "",
   new_content |-> "", pre |-> NoCorpus, md_files |-> <<>>, resp |-> Ok("")]
SearchIdle ==
  /\ corpus = NoCorpus
  /\ slast = NoSearchCall

NoCall == [op |-> "none", args |-> NoArgs, pre |-> NoDoc, resp |-> Ok("")]

DocInit ==
  /\ doc = NoDoc
  /\ clock = 1
  /\ git \in GitOutcomes
  /\ last = NoCall
  /\ WriteIdle
  /\ PathIdle
  /\ IndexIdle
  /\ MainIdle
  /\ SearchIdle

DocNext ==
  \/ \E introduction \in Introductions, keywords \in KeywordLists,
        chapters \in ChapterLists :
       CreateKnowledgeFile(introduction, keywords, chapters)
  \/ \E chapter_title \in UpdateTitles, new_content \in NewContents,
        new_summary \in NewSummaries :
       UpdateChapter(chapter_title, new_content, new_summary)
  \/ DeleteKnowledgeFile

SpecDoc == DocInit /\ [][DocNext]_vars

(***************************************************************************)
(* write_document and parse_document on a document (SpecCodec)             *)
(***************************************************************************)

\* Metadata mappings, none of them empty (write_document raises ValueError
\* for an empty one), and content texts with and without whitespace at
\* their ends.
CodecMetadata ==
  {[title |-> title, keywords |-> keywords, created |-> 1, updated |-> 2] :
     title \in {"Doc", ""}, keywords \in KeywordLists}
CodecContents ==
  {"", "c", " c", "c ", "c\n", "\nc", "c\n\n## A\n\nd", "## A\n\nd\n\n"}

\* write_document(path, metadata, content) of a non-empty metadata: the
\* text of frontmatter.dumps replaces the file at the path.
WriteDocument(metadata, content) ==
  /\ doc' = FrontmatterDumps(metadata, content)
  /\ last' = Call("write_document",
                  [metadata |-> metadata, content |-> content], Ok(""))
  /\ UNCHANGED <<git, clock, notDoc>>

\* parse_document(content) of the text that write_document left at the
\* path.
ParseDocument ==
  /\ doc.exists
  /\ last.op = "write_document"
  /\ last' = [last EXCEPT !.op = "parse_document",
                          !.pre = doc,
                          !.resp = parse_document(doc)]
  /\ UNCHANGED <<doc, git, clock, notDoc>>

CodecNext ==
  \/ \E metadata \in CodecMetadata, content \in CodecContents :
       WriteDocument(metadata, content)
  \/ ParseDocument

SpecCodec == DocInit /\ [][CodecNext]_vars

(***************************************************************************)
(* The document tools on chapters of every level (SpecHeading)             *)
(***************************************************************************)

\* Caller-supplied chapter lists whose contents hold headings of the levels
\* 3 and 4 (and lines of 1 and 5 "#", which are no headings), and the
\* titles and texts of the updates.
HeadingChapterLists ==
  { <<Chapter("A", "c")>>,
    <<Chapter("A", "c\n### S\nd\n#### T\ne")>>,
    <<Chapter("A", "# U\n### S\nd"), Chapter("B", "##### V\n#### T")>> }
HeadingTitles == {"A", "S", "T"}
HeadingContents == {"n", "n\n\nm"}

HeadingNext ==
  \/ \E introduction \in {"", "i"}, chapters \in HeadingChapterLists :
       CreateKnowledgeFile(introduction, <<"kw">>, chapters)
  \/ \E chapter_title \in HeadingTitles, new_content \in HeadingContents :
       UpdateChapter(chapter_title, new_content, None)
  \/ DeleteKnowledgeFile

SpecHeading == DocInit /\ [][HeadingNext]_vars

(***************************************************************************)
(* parse_chapters on bodies (SpecParse)                                    *)
(***************************************************************************)

\* The number of lines of a body.
MaxParseLines == 3

\* The lines of the bodies: empty and blank lines, text, headings of the
\* levels 1 to 5, and a line of two "#" and two blanks.
ParseLines ==
  {"", " ", "t", "# A", "## A", "### B", "#### C", "##### D", "##  "}

ParseBodies ==
  {Join(lines, "\n") :
     lines \in UNION {[1..n -> ParseLines] : n \in 0..MaxParseLines}}

\* The state before parse_chapters is called on a body: the body is the
\* argument of the coming call.
ParseInit ==
  /\ \E content \in ParseBodies :
       last = [NoCall EXCEPT !.args = [content |-> content]]
  /\ doc = NoDoc
  /\ clock = 1
  /\ git = "ok"
  /\ WriteIdle
  /\ PathIdle
  /\ IndexIdle
  /\ MainIdle
  /\ SearchIdle

\* parse_chapters(content)
ParseChapters ==
  /\ last.op = "none"
  /\ last' = Call("parse_chapters", last.args,
                  parse_chapters(last.args.content))
  /\ UNCHANGED <<doc, git, clock, notDoc>>

ParseNext == ParseChapters

SpecParse == ParseInit /\ [][ParseNext]_vars

(***************************************************************************)
(* write_document under concurrent callers (SpecWrite)                     *)
(*                                                                         *)
(* Every caller is a server process of its own on the shared storage; a    *)
(* step is one file system call of one caller. The document's text is a    *)
(* version number, written in DocChunks pieces.                            *)
(***************************************************************************)

\* A write_document that writes into the final path itself.
TempNameInPlace(c) == DocName

\* write_document: the name of the file the call c writes,
\* NamedTemporaryFile(mode="w", dir=path.parent, delete=False).
TempName(c) == TmpFile(c)

\* A write_document that renames in a "finally".
AfterWriteFailureReplace == "replace"

\* write_document: where a call goes on when creating or writing the
\* temporary file raises: the exception leaves write_document before
\* os.replace and the tool returns the failure.
AfterWriteFailure == "idle"

\* A write_document that renames inside the with block, with the first
\* piece of the text in the file.
AfterChunkEarly(written) == "replace"

\* write_document: where a call goes on after a piece of the text reached
\* the temporary file: os.replace follows the with block, which ends when
\* tmp.write has written the whole text.
AfterChunk(written) == IF written = DocChunks THEN "replace" ELSE "write"

\* The file at the final path.
Target == IF names[DocName] = 0 THEN NoContent ELSE inodes[names[DocName]]

Goto(p, place) == pc' = [pc EXCEPT ![p] = place]

\* The tool returns.
Return(p, resp) ==
  /\ pc' = [pc EXCEPT ![p] = "idle"]
  /\ loc' = [loc EXCEPT ![p].resp = resp]

\* A caller starts a tool call: update_chapter, create_knowledge_file,
\* delete_knowledge_file, or a read of the document (search_documents,
\* list_files_resource, list_chapters_resource).
Begin(p, op) ==
  /\ pc[p] = "idle"
  /\ calls < MaxWriteCalls
  /\ calls' = calls + 1
  /\ loc' = [loc EXCEPT ![p] = [IdleLocals EXCEPT !.op = op,
                                                  !.call = calls + 1]]
  /\ Goto(p, IF op = "read" THEN "open" ELSE "exists")
  /\ UNCHANGED <<names, inodes, published, git, clock,
               notWrite>>

\* file_path.exists() of update_chapter, create_knowledge_file and
\* delete_knowledge_file.
ExistsCheck(p) ==
  /\ pc[p] = "exists"
  /\ IF loc[p].op = "create_knowledge_file"
     THEN IF names[DocName] # 0
          THEN Return(p, Failure("File already exists: doc.md"))
          ELSE Goto(p, "mktemp") /\ UNCHANGED loc
     ELSE IF names[DocName] = 0
          THEN Return(p, Failure("File not found: doc.md"))
          ELSE /\ Goto(p, IF loc[p].op = "update_chapter" THEN "open"
                          ELSE "unlink")
               /\ UNCHANGED loc
  /\ UNCHANGED <<names, inodes, calls, published, git, clock,
               notWrite>>

\* Opening the document for reading: read_text of update_chapter and of the
\* resources, open of search_documents. A reader that finds no document
\* reports none; update_chapter gets FileNotFoundError.
OpenDocument(p) ==
  /\ pc[p] = "open"
  /\ IF names[DocName] = 0
     THEN Return(p, IF loc[p].op = "read" THEN Ok("no document")
                    ELSE Failure("[Errno 2] No such file or directory"))
     ELSE /\ loc' = [loc EXCEPT ![p].fd = names[DocName]]
          /\ Goto(p, "read")
  /\ UNCHANGED <<names, inodes, calls, published, git, clock,
               notWrite>>

\* Reading the opened file to its end. update_chapter goes on to
\* write_document when the document has the chapter.
ReadDocument(p, chapter_found) ==
  /\ pc[p] = "read"
  /\ IF loc[p].op = "read"
     THEN /\ pc' = [pc EXCEPT ![p] = "idle"]
          /\ loc' = [loc EXCEPT ![p].seen = inodes[loc[p].fd],
                                ![p].resp = Ok("read")]
     ELSE IF chapter_found
     THEN /\ loc' = [loc EXCEPT ![p].seen = inodes[loc[p].fd]]
          /\ Goto(p, "mktemp")
     ELSE /\ pc' = [pc EXCEPT ![p] = "idle"]
          /\ loc' = [loc EXCEPT ![p].seen = inodes[loc[p].fd],
                                ![p].resp = Failure("Chapter not found")]
  /\ UNCHANGED <<names, inodes, calls, published, git, clock,
               notWrite>>

\* write_document: NamedTemporaryFile creates and opens the file to write.
\* (Opening a name that exists for writing empties the file.)
MakeTemp(p) ==
  /\ pc[p] = "mktemp"
  /\ LET name == TempName(loc[p].call) IN
     IF names[name] = 0
     THEN /\ names' = [names EXCEPT ![name] = loc[p].call + 1]
          /\ inodes' = [inodes EXCEPT ![loc[p].call + 1] =
                                        Content(loc[p].call, 0)]
          /\ loc' = [loc EXCEPT ![p].wfd = loc[p].call + 1]
     ELSE /\ inodes' = [inodes EXCEPT ![names[name]] =
                                        Content(loc[p].call, 0)]
          /\ loc' = [loc EXCEPT ![p].wfd = names[name]]
          /\ UNCHANGED names
  /\ Goto(p, "write")
  /\ UNCHANGED <<calls, published, git, clock,
               notWrite>>

\* write_document: NamedTemporaryFile raises (no space, no permission).
MakeTempFails(p) ==
  /\ pc[p] = "mktemp"
  /\ pc' = [pc EXCEPT ![p] = AfterWriteFailure]
  /\ loc' = [loc EXCEPT ![p].wfailed = TRUE,
                        ![p].resp = Failure("OSError in NamedTemporaryFile")]
  /\ UNCHANGED <<names, inodes, calls, published, git, clock,
               notWrite>>

\* write_document: tmp.write, one piece of the text reaches the file; after
\* the last piece the with block closes the file.
WriteChunk(p) ==
  /\ pc[p] = "write"
  /\ inodes[loc[p].wfd].chunks < DocChunks
  /\ inodes' = [inodes EXCEPT ![loc[p].wfd].chunks = @ + 1]
  /\ Goto(p, AfterChunk(inodes[loc[p].wfd].chunks + 1))
  /\ UNCHANGED <<names, loc, calls, published, git, clock,
               notWrite>>

\* write_document: tmp.write raises with the text written in part.
WriteFails(p) ==
  /\ pc[p] = "write"
  /\ pc' = [pc EXCEPT ![p] = AfterWriteFailure]
  /\ loc' = [loc EXCEPT ![p].wfailed = TRUE,
                        ![p].resp = Failure("OSError in write")]
  /\ UNCHANGED <<names, inodes, calls, published, git, clock,
               notWrite>>

\* write_document: os.replace(tmp_path, path), one atomic rename.
Replace(p) ==
  /\ pc[p] = "replace"
  /\ LET name == TempName(loc[p].call) IN
     IF names[name] = 0
     THEN /\ Return(p, Failure("[Errno 2] No such file or directory"))
          /\ UNCHANGED <<names, published>>
     ELSE /\ names' = [n \in FileNames |->
                         IF n = DocName THEN names[name]
                         ELSE IF n = name THEN 0
                         ELSE names[n]]
          /\ published' = published \cup {inodes[names[name]].ver}
          /\ IF loc[p].wfailed
             THEN pc' = [pc EXCEPT ![p] = "idle"]
             ELSE Goto(p, "commit")
          /\ UNCHANGED loc
  /\ UNCHANGED <<inodes, calls, git, clock,
               notWrite>>

\* file_path.unlink() of delete_knowledge_file.
Unlink(p) ==
  /\ pc[p] = "unlink"
  /\ IF names[DocName] = 0
     THEN /\ Return(p, Failure("[Errno 2] No such file or directory"))
          /\ UNCHANGED names
     ELSE /\ names' = [names EXCEPT ![DocName] = 0]
          /\ Goto(p, "commit")
          /\ UNCHANGED loc
  /\ UNCHANGED <<inodes, calls, published, git, clock,
               notWrite>>

\* auto_commit, and the tool's return.
Commit(p) ==
  /\ pc[p] = "commit"
  /\ Return(p, AfterCommit("done"))
  /\ UNCHANGED <<names, inodes, calls, published, git, clock,
               notWrite>>

WriteOps ==
  {"update_chapter", "create_knowledge_file", "delete_knowledge_file", "read"}

WriteInit ==
  /\ WriteIdle
  /\ git \in GitOutcomes
  /\ doc = NoDoc
  /\ clock = 1
  /\ last = NoCall
  /\ PathIdle
  /\ IndexIdle
  /\ MainIdle
  /\ SearchIdle

WriteNext ==
  \E p \in Callers :
    \/ \E op \in WriteOps : Begin(p, op)
    \/ ExistsCheck(p)
    \/ OpenDocument(p)
    \/ \E chapter_found \in BOOLEAN : ReadDocument(p, chapter_found)
    \/ MakeTemp(p)
    \/ MakeTempFails(p)
    \/ WriteChunk(p)
    \/ WriteFails(p)
    \/ Replace(p)
    \/ Unlink(p)
    \/ Commit(p)

SpecWrite == WriteInit /\ [][WriteNext]_vars

(***************************************************************************)
(* Reads beside update_chapter and delete_knowledge_file (SpecRead)        *)
(*                                                                         *)
(* The callers of SpecWrite without create_knowledge_file: the document of *)
(* the initial state is updated, deleted and read, and nothing creates it  *)
(* again. A read (search_documents, list_files_resource) writes no file    *)
(* and takes none of the MaxWriteCalls writing calls.                      *)
(***************************************************************************)

\* A caller starts search_knowledge or list_files_resource.
ReadBegin(p) ==
  /\ pc[p] = "idle"
  /\ loc' = [loc EXCEPT ![p] = [IdleLocals EXCEPT !.op = "read"]]
  /\ Goto(p, "open")
  /\ UNCHANGED <<names, inodes, calls, published, git, clock,
               notWrite>>

ReadNext ==
  \E p \in Callers :
    \/ \E op \in {"update_chapter", "delete_knowledge_file"} : Begin(p, op)
    \/ ReadBegin(p)
    \/ ExistsCheck(p)
    \/ OpenDocument(p)
    \/ \E chapter_found \in BOOLEAN : ReadDocument(p, chapter_found)
    \/ MakeTemp(p)
    \/ MakeTempFails(p)
    \/ WriteChunk(p)
    \/ WriteFails(p)
    \/ Replace(p)
    \/ Unlink(p)
    \/ Commit(p)

SpecRead == WriteInit /\ [][ReadNext]_vars

(***************************************************************************)
(* The callers on a project without the document (SpecCreate)              *)
(***************************************************************************)

\* The state of the write protocol before any call of a project whose
\* knowledge directory has no file.
CreateInit ==
  /\ names = [n \in FileNames |-> 0]
  /\ inodes = [i \in 1..(MaxWriteCalls + 1) |-> NoContent]
  /\ pc = [p \in Callers |-> "idle"]
  /\ loc = [p \in Callers |-> IdleLocals]
  /\ calls = 0
  /\ published = {}
  /\ git \in GitOutcomes
  /\ doc = NoDoc
  /\ clock = 1
  /\ last = NoCall
  /\ PathIdle
  /\ IndexIdle
  /\ MainIdle
  /\ SearchIdle

SpecCreate == CreateInit /\ [][WriteNext]_vars

(***************************************************************************)
(* The tools on caller-supplied filenames, one call at a time (SpecPath)   *)
(*                                                                         *)
(* The project "p" is in the index and has its knowledge directory; every  *)
(* tool call runs from its first line to its return.                       *)
(***************************************************************************)

\* The number of tool calls of a run of SpecPath.
MaxPathCalls == 2

PathCall(op, filename, accessed, resp, chapters) ==
  [op |-> op, filename |-> filename, pre |-> tree, accessed |-> accessed,
   resp |-> resp, chapters |-> chapters]

\* create_knowledge_file(project_id, filename, ...): the file system calls
\* are made on knowledge_path / safe_filename.
PathCreate(filename) ==
  /\ clock <= MaxPathCalls
  /\ clock' = clock + 1
  /\ \E path \in {CreatePath(filename)} :
     \E out \in {CreateOutcome(tree[path], SafeFilename(filename), "i",
                                <<"kw">>, <<Chapter("A", "c")>>)} :
        /\ tree'= [tree EXCEPT ![path] = out.file]
        /\ plast' = PathCall("create_knowledge_file", filename, {path},
                             out.resp, <<>>)
  /\ UNCHANGED <<git, notPath>>

\* update_chapter(project_id, filename, chapter_title, new_content): the file
\* system calls are made on knowledge_path / filename.
PathUpdateChapter(filename, chapter_title, new_content) ==
  /\ clock <= MaxPathCalls
  /\ clock' = clock + 1
  /\ \E path \in {FilePath(filename)} :
     \E out \in {UpdateOutcome(tree[path], filename, chapter_title,
                                new_content, None)} :
        /\ tree'= [tree EXCEPT ![path] = out.file]
        /\ plast' = PathCall("update_chapter", filename, {path}, out.resp,
                             <<>>)
  /\ UNCHANGED <<git, notPath>>

\* delete_knowledge_file(project_id, filename)
PathDelete(filename) ==
  /\ clock <= MaxPathCalls
  /\ clock' = clock + 1
  /\ \E path \in {FilePath(filename)} :
     \E out \in {DeleteOutcome(tree[path], filename)} :
        /\ tree'= [tree EXCEPT ![path] = out.file]
        /\ plast' = PathCall("delete_knowledge_file", filename, {path},
                             out.resp, <<>>)
  /\ UNCHANGED <<git, notPath>>

\* list_chapters_resource(project_id, filename): the response carries the
\* chapters of the file it read.
PathListChapters(filename) ==
  /\ clock <= MaxPathCalls
  /\ clock' = clock + 1
  /\ \E path \in {FilePath(filename)} :
     plast' = IF tree[path].exists
              THEN PathCall("list_chapters_resource", filename, {path},
                            Ok(""), list_chapters_resource(tree[path]))
              ELSE PathCall("list_chapters_resource", filename, {path},
                            Failure("File not found"), <<>>)
  /\ UNCHANGED <<tree, git, notPath>>

PathInit ==
  /\ PathIdle
  /\ git \in GitOutcomes
  /\ clock = 1
  /\ doc = NoDoc
  /\ last = NoCall
  /\ WriteIdle
  /\ IndexIdle
  /\ MainIdle
  /\ SearchIdle

PathNext ==
  \E filename \in Filenames :
    \/ PathCreate(filename)
    \/ \E chapter_title \in UpdateTitles, new_content \in NewContents :
         PathUpdateChapter(filename, chapter_title, new_content)
    \/ PathDelete(filename)
    \/ PathListChapters(filename)

SpecPath == PathInit /\ [][PathNext]_vars

(***************************************************************************)
(* get_project_directory under concurrent callers (SpecIndex)              *)
(*                                                                         *)
(* Every caller is a server process of its own on the shared storage; a    *)
(* step is one file system call of one caller. An index text is far        *)
(* shorter than the buffer of the file object, so that json.dump reaches   *)
(* the file in one write when the with block closes it.                    *)
(***************************************************************************)

\* Caller-supplied project identifiers; the two have the same slug.
ProjectIds == {"A b", "a-b"}

\* get_project_directory: the loop that makes the directory name unique,
\* from the candidate base_slug-counter on.
RECURSIVE UniqueFrom(_, _, _)
UniqueFrom(base_slug, counter, values) ==
  LET slugified == base_slug \o "-" \o ToString(counter) IN
  IF slugified \in values THEN UniqueFrom(base_slug, counter + 1, values)
  ELSE slugified

\* A get_project_directory without the loop that makes the name unique.
NewDirectoryNoLoop(index, project_id) == slugify(project_id)

\* get_project_directory: the directory name of a project_id the index does
\* not hold.
NewDirectory(index, project_id) ==
  LET base_slug == slugify(project_id) IN
  IF base_slug \in IndexValues(index)
  THEN UniqueFrom(base_slug, 1, IndexValues(index))
  ELSE base_slug

\* read_project_index: no file, or a file that json.load rejects, is the
\* empty index.
read_project_index ==
  LET inode == indexNames["index.json"] IN
  IF inode = 0 \/ ~indexInodes[inode].valid THEN {}
  ELSE indexInodes[inode].projects

\* A text written at offset 0 of a file that holds old: a shorter text
\* leaves the end of the old one behind it, which is no JSON document.
WriteOver(old, index) ==
  IF JsonSize(index) >= old.size THEN IndexContent(index)
  ELSE Garbled(old.size)

IndexGoto(p, place) == ipc' = [ipc EXCEPT ![p] = place]

\* get_project_directory returns the directory name.
IndexReturn(p, dir_name) ==
  /\ ipc' = [ipc EXCEPT ![p] = "idle"]
  /\ iloc' = [iloc EXCEPT ![p].slugified = dir_name, ![p].resp = Ok(dir_name)]
  /\ given' = given \cup {<<iloc[p].project_id, dir_name>>}

\* A tool calls get_project_directory(STORAGE_PATH, project_id).
ResolveBegin(p, project_id) ==
  /\ ipc[p] = "idle"
  /\ icalls < MaxIndexCalls
  /\ icalls' = icalls + 1
  /\ iloc' = [iloc EXCEPT ![p] = [IndexIdleLocals EXCEPT
                                    !.project_id = project_id,
                                    !.call = icalls + 1]]
  /\ IndexGoto(p, "read_index")
  /\ UNCHANGED <<indexNames, indexInodes, given, git, clock, notIndex>>

\* read_project_index, the lookup, and for a new project_id the directory
\* name and the index to write.
ReadIndex(p) ==
  /\ ipc[p] = "read_index"
  /\ LET index == read_project_index
         project_id == iloc[p].project_id
     IN
     IF project_id \in IndexKeys(index)
     THEN IndexReturn(p, IndexGet(index, project_id))
     ELSE LET slugified == NewDirectory(index, project_id) IN
          /\ iloc' = [iloc EXCEPT
                        ![p].index = index \cup {<<project_id, slugified>>},
                        ![p].slugified = slugified]
          /\ IndexGoto(p, "open_tmp")
          /\ UNCHANGED given
  /\ UNCHANGED <<indexNames, indexInodes, icalls, git, clock, notIndex>>

\* write_project_index: open(temp_file, "w") creates index.json.tmp, or
\* empties the file that has the name.
OpenTmp(p) ==
  /\ ipc[p] = "open_tmp"
  /\ LET inode == IF indexNames["index.json.tmp"] = 0 THEN iloc[p].call
                  ELSE indexNames["index.json.tmp"]
     IN /\ indexNames' = [indexNames EXCEPT !["index.json.tmp"] = inode]
        /\ indexInodes' = [indexInodes EXCEPT ![inode] = EmptyFile]
        /\ iloc' = [iloc EXCEPT ![p].fd = inode]
  /\ IndexGoto(p, "write_tmp")
  /\ UNCHANGED <<icalls, given, git, clock, notIndex>>

\* write_project_index: json.dump and the close of the with block.
WriteTmp(p) ==
  /\ ipc[p] = "write_tmp"
  /\ indexInodes' = [indexInodes EXCEPT
                       ![iloc[p].fd] = WriteOver(@, iloc[p].index)]
  /\ IndexGoto(p, "replace")
  /\ UNCHANGED <<indexNames, iloc, icalls, given, git, clock, notIndex>>

\* write_project_index: temp_file.replace(index_file); FileNotFoundError
\* when index.json.tmp is gone.
ReplaceTmp(p) ==
  /\ ipc[p] = "replace"
  /\ IF indexNames["index.json.tmp"] = 0
     THEN /\ IndexGoto(p, "cleanup")
          /\ UNCHANGED indexNames
     ELSE /\ indexNames' = [indexNames EXCEPT
                              !["index.json"] = indexNames["index.json.tmp"],
                              !["index.json.tmp"] = 0]
          /\ IndexGoto(p, "commit")
  /\ UNCHANGED <<indexInodes, iloc, icalls, given, git, clock, notIndex>>

\* write_project_index: auto_commit; when it returns, get_project_directory
\* returns the new directory name.
IndexCommit(p) ==
  /\ ipc[p] = "commit"
  /\ IF AutoCommitReturns(git)
     THEN IndexReturn(p, iloc[p].slugified)
     ELSE IndexGoto(p, "cleanup") /\ UNCHANGED <<iloc, given>>
  /\ UNCHANGED <<indexNames, indexInodes, icalls, git, clock, notIndex>>

\* write_project_index: the except clause removes index.json.tmp when there
\* is one and raises; the tool reports the failure.
IndexCleanup(p) ==
  /\ ipc[p] = "cleanup"
  /\ indexNames' = [indexNames EXCEPT !["index.json.tmp"] = 0]
  /\ ipc' = [ipc EXCEPT ![p] = "idle"]
  /\ iloc' = [iloc EXCEPT ![p].resp = Failure("write_project_index raised")]
  /\ UNCHANGED <<indexInodes, icalls, given, git, clock, notIndex>>

IndexInit ==
  /\ IndexIdle
  /\ git \in GitOutcomes
  /\ clock = 1
  /\ doc = NoDoc
  /\ last = NoCall
  /\ WriteIdle
  /\ PathIdle
  /\ MainIdle
  /\ SearchIdle

IndexNext ==
  \E p \in Callers :
    \/ \E project_id \in ProjectIds : ResolveBegin(p, project_id)
    \/ ReadIndex(p)
    \/ OpenTmp(p)
    \/ WriteTmp(p)
    \/ ReplaceTmp(p)
    \/ IndexCommit(p)
    \/ IndexCleanup(p)

SpecIndex == IndexInit /\ [][IndexNext]_vars

\* get_project_directory calls made one at a time: a call begins when no
\* other call is under way.
SeqResolveBegin(p, project_id) ==
  /\ \A q \in Callers : ipc[q] = "idle"
  /\ ResolveBegin(p, project_id)

IndexSeqNext ==
  \E p \in Callers :
    \/ \E project_id \in ProjectIds : SeqResolveBegin(p, project_id)
    \/ ReadIndex(p)
    \/ OpenTmp(p)
    \/ WriteTmp(p)
    \/ ReplaceTmp(p)
    \/ IndexCommit(p)
    \/ IndexCleanup(p)

SpecIndexSeq == IndexInit /\ [][IndexSeqNext]_vars

(***************************************************************************)
(* The main instructions of a project: get_project_main and                *)
(* update_project_main, one call after the other                           *)
(***************************************************************************)

MaxMainCalls == 3

MainProjectIds ==
  {"p", "../../../etc/passwd", "/absolute/path", "..\\..\\windows\\system32"}
MainContents == {"m", "n"}

\* get_project_directory as one step: the directory name of project_id, the
\* index the storage holds after the call, and whether the call raised
\* (write_project_index replaces index.json and then lets through what
\* auto_commit raises).
get_project_directory(index, project_id) ==
  IF project_id \in IndexKeys(index)
  THEN [dir |-> IndexGet(index, project_id), index |-> index,
        raised |-> FALSE]
  ELSE LET slugified == NewDirectory(index, project_id) IN
       [dir |-> slugified,
        index |-> index \cup {<<project_id, slugified>>},
        raised |-> ~AutoCommitReturns(git)]

MainKeys(files) == {e[1] : e \in files}
MainText(files, dir) == (CHOOSE e \in files : e[1] = dir)[2]
\* main_file.write_text(content): the file of the directory holds content.
MainWrite(files, dir, content) ==
  {e \in files : e[1] # dir} \cup {<<dir, content>>}

MainResponse(exists, success, content, error, message) ==
  [exists |-> exists, success |-> success, content |-> content,
   error |-> error, message |-> message]

\* The tool get_project_main; a response without an error key has error
\* None.
GetProjectMain(project_id) ==
  /\ clock <= MaxMainCalls
  /\ clock' = clock + 1
  /\ \E got \in {get_project_directory(storage.index, project_id)} :
       /\ storage' = [storage EXCEPT !.index = got.index]
       /\ mlast' =
            [op |-> "get_project_main", project_id |-> project_id,
             content |-> "", pre |-> storage.mains,
             resp |->
               IF got.raised
               THEN MainResponse(FALSE, FALSE, "", GitError, "")
               ELSE IF got.dir \notin MainKeys(storage.mains)
               THEN MainResponse(FALSE, FALSE, "", None, "")
               ELSE MainResponse(TRUE, FALSE,
                                 MainText(storage.mains, got.dir), None, "")]
  /\ UNCHANGED <<git, notMain, indexVars>>

\* The tool update_project_main.
UpdateProjectMain(project_id, content) ==
  /\ clock <= MaxMainCalls
  /\ clock' = clock + 1
  /\ \E got \in {get_project_directory(storage.index, project_id)} :
       /\ storage' =
            [index |-> got.index,
             mains |-> IF got.raised THEN storage.mains
                       ELSE MainWrite(storage.mains, got.dir, content)]
       /\ mlast' =
            [op |-> "update_project_main", project_id |-> project_id,
             content |-> content, pre |-> storage.mains,
             resp |->
               IF got.raised \/ ~AutoCommitReturns(git)
               THEN MainResponse(FALSE, FALSE, "", GitError, "")
               ELSE MainResponse(FALSE, TRUE, "", None,
                      "Project main instructions updated successfully")]
  /\ UNCHANGED <<git, notMain, indexVars>>

MainInit ==
  /\ MainIdle
  /\ git \in GitOutcomes
  /\ clock = 1
  /\ doc = NoDoc
  /\ last = NoCall
  /\ WriteIdle
  /\ PathIdle
  /\ IndexIdle
  /\ SearchIdle

MainNext ==
  \E project_id \in MainProjectIds :
    \/ GetProjectMain(project_id)
    \/ \E content \in MainContents : UpdateProjectMain(project_id, content)

SpecMain == MainInit /\ [][MainNext]_vars

(***************************************************************************)
(* documents.py: search_documents                                          *)
(***************************************************************************)

\* The characters a context reaches before and after an occurrence.
ContextWidth == 50

Max(a, b) == IF a >= b THEN a ELSE b
Min(a, b) == IF a <= b THEN a ELSE b

\* str.split(): the pieces between runs of whitespace, none of them empty;
\* word is the piece being read.
RECURSIVE SplitLoop(_, _)
SplitLoop(s, word) ==
  IF Len(s) = 0 THEN (IF word = "" THEN <<>> ELSE <<word>>)
  ELSE IF Ch(s, 1) \in Whitespace
  THEN (IF word = "" THEN <<>> ELSE <<word>>) \o SplitLoop(Tail(s), "")
  ELSE SplitLoop(Tail(s), word \o Ch(s, 1))

SplitWhitespace(s) == SplitLoop(s, "")

\* keywords = [kw.strip().lower() for kw in query.split() if kw.strip()]
RECURSIVE KeywordList(_)
KeywordList(words) ==
  IF Len(words) = 0 THEN <<>>
  ELSE (IF Strip(Head(words)) = "" THEN <<>>
        ELSE <<Lower(Strip(Head(words)))>>) \o KeywordList(Tail(words))

Keywords(query) == KeywordList(SplitWhitespace(query))

\* The loop that collects the context of every occurrence of keyword in
\* text, found in its lower-case form text_lower from the 0-based offset
\* start_pos on; the next search starts one character after an occurrence.
RECURSIVE Contexts(_, _, _, _)
Contexts(text, text_lower, keyword, start_pos) ==
  LET index == FindFrom(text_lower, keyword, start_pos) IN
  IF index = -1 THEN <<>>
  ELSE LET ctx_start == Max(0, index - ContextWidth)
           ctx_end == Min(Len(text), index + Len(keyword) + ContextWidth)
           context == Strip(SubSeq(text, ctx_start + 1, ctx_end))
       IN <<(IF ctx_start > 0 THEN "..." ELSE "") \o context
              \o (IF ctx_end < Len(text) THEN "..." ELSE "")>>
          \o Contexts(text, text_lower, keyword, index + 1)

\* The keys of the two buckets that are not chapters.
DocumentBodyKey == "_document_body"
PreChapterKey == "_pre_chapter"

\* matching_chapters of one document is a dict in insertion order: a
\* sequence of buckets, one per key.
HasKey(buckets, key) == \E i \in 1..Len(buckets) : buckets[i].key = key

\* The contexts of keyword are filed under key: the bucket is made when the
\* key is new, the keyword joins keywords_found and the contexts extend
\* match_context[keyword]. Nothing is filed "if contexts" is false.
AddMatch(buckets, key, chapter, chapter_summary, keyword, contexts) ==
  IF Len(contexts) = 0 THEN buckets
  ELSE LET made ==
             IF HasKey(buckets, key) THEN buckets
             ELSE Append(buckets,
                         [key |-> key, chapter |-> chapter,
                          keywords_found |-> {}, match_context |-> <<>>,
                          chapter_summary |-> chapter_summary])
           i == CHOOSE k \in 1..Len(made) : made[k].key = key
       IN [made EXCEPT
             ![i].keywords_found = @ \cup {keyword},
             ![i].match_context =
                IF keyword \in DOMAIN @
                THEN [@ EXCEPT ![keyword] = @ \o contexts]
                ELSE @ @@ (keyword :> contexts)]

\* "If no chapters, search entire body"
SearchBody(buckets, body, body_lower, chapters, keyword) ==
  IF Len(chapters) = 0 /\ Contains(body_lower, keyword)
  THEN AddMatch(buckets, DocumentBodyKey, "", "", keyword,
                Contexts(body, body_lower, keyword, 0))
  ELSE buckets

\* "Search in chapters", from chapter k on
RECURSIVE SearchChapters(_, _, _, _)
SearchChapters(buckets, chapters, k, keyword) ==
  IF k > Len(chapters) THEN buckets
  ELSE LET chapter == chapters[k]
           chapter_lower == Lower(chapter.content)
       IN
       SearchChapters(
         IF Contains(chapter_lower, keyword)
         THEN AddMatch(buckets, chapter.title, chapter.title,
                       chapter.summary, keyword,
                       Contexts(chapter.content, chapter_lower, keyword, 0))
         ELSE buckets,
         chapters, k + 1, keyword)

\* "If chapters exist, also search for pre-chapter content"
SearchPreChapter(buckets, body, body_lower, chapters, keyword) ==
  IF Len(chapters) > 0 /\ Contains(body_lower, keyword)
  THEN LET first_chapter_start == Find(body, "\n##") IN
       IF first_chapter_start > 0
       THEN LET pre_chapter_content == Prefix(body, first_chapter_start)
                content_lower == Lower(pre_chapter_content)
            IN
            IF Contains(content_lower, keyword)
            THEN AddMatch(buckets, PreChapterKey, "", "", keyword,
                          Contexts(pre_chapter_content, content_lower,
                                   keyword, 0))
            ELSE buckets
       ELSE buckets
  ELSE buckets

\* "Search each keyword", from keyword k on
RECURSIVE SearchKeywords(_, _, _, _, _)
SearchKeywords(buckets, body, chapters, keywords, k) ==
  IF k > Len(keywords) THEN buckets
  ELSE LET body_lower == Lower(body) IN
       SearchKeywords(
         SearchPreChapter(
           SearchChapters(
             SearchBody(buckets, body, body_lower, chapters, keywords[k]),
             chapters, 1, keywords[k]),
           body, body_lower, chapters, keywords[k]),
         body, chapters, keywords, k + 1)

\* The order of Python's str comparison on ASCII text: the characters in
\* code point order (without the quotation mark, the backslash and the
\* grave accent, which no modelled keyword holds).
Ascii ==
  " !#$%&'()*+,-./" \o Digits \o ":;<=>?@" \o UpperCase \o "[]^_"
    \o LowerCase \o "{|}~"

RECURSIVE StrLess(_, _)
StrLess(a, b) ==
  IF Len(b) = 0 THEN FALSE
  ELSE IF Len(a) = 0 THEN TRUE
  ELSE IF Ch(a, 1) = Ch(b, 1) THEN StrLess(Tail(a), Tail(b))
  ELSE Find(Ascii, Ch(a, 1)) < Find(Ascii, Ch(b, 1))

\* sorted(list(strings))
RECURSIVE Sorted(_)
Sorted(strings) ==
  IF strings = {} THEN <<>>
  ELSE LET least == CHOOSE a \in strings :
                      \A b \in strings \ {a} : StrLess(a, b)
       IN <<least>> \o Sorted(strings \ {least})

\* "Convert matching chapters to list"
RECURSIVE MatchingChapters(_)
MatchingChapters(buckets) ==
  IF Len(buckets) = 0 THEN <<>>
  ELSE <<[chapter |-> Head(buckets).chapter,
          keywords_found |-> Sorted(Head(buckets).keywords_found),
          match_context |-> Head(buckets).match_context,
          chapter_summary |-> Head(buckets).chapter_summary]>>
       \o MatchingChapters(Tail(buckets))

\* A parse_document that accepts every text.
RejectsNone(dir, name) == FALSE

\* parse_document raises ValueError for the text of the file.
Rejects(dir, name) == name \in dir.malformed

\* The records of the files md_files[k..] of a knowledge directory: a file
\* that parse_document rejects raises before anything is filed for it, and
\* "except Exception: continue" goes on with the next file; a document is
\* in document_results when something was filed for it.
RECURSIVE SearchFiles(_, _, _, _)
SearchFiles(dir, md_files, k, keywords) ==
  IF k > Len(md_files) THEN <<>>
  ELSE LET name == md_files[k]
           parsed == parse_document(dir.files[name])
           buckets == SearchKeywords(<<>>, parsed.body,
                                     parse_chapters(parsed.body), keywords, 1)
       IN (IF Rejects(dir, name) \/ Len(buckets) = 0 THEN <<>>
           ELSE <<[file |-> name,
                   match_count |-> Len(MatchingChapters(buckets)),
                   metadata |-> parsed.metadata,
                   matching_chapters |-> MatchingChapters(buckets)]>>)
          \o SearchFiles(dir, md_files, k + 1, keywords)

\* search_documents(project_path, query) for the project directory dir when
\* knowledge_dir.glob("*.md") yields md_files.
search_documents(dir, md_files, query) ==
  IF query = "" THEN <<>>
  ELSE IF ~dir.knowledge THEN <<>>
  ELSE IF Len(Keywords(query)) = 0 THEN <<>>
  ELSE SearchFiles(dir, md_files, 1, Keywords(query))

(***************************************************************************)
(* The corpus of a project: create_knowledge_file, update_chapter and      *)
(* search_knowledge, one call after the other                              *)
(***************************************************************************)

MaxSearchCalls == 3

\* Caller-supplied texts.
SearchIntroductions == {"", "i c"}
SearchChapterLists ==
  { <<>>,
    <<Chapter("A", "ccc")>>,
    <<Chapter("A", "c"), Chapter("B", "d")>>,
    <<Chapter(PreChapterKey, "c")>>,
    <<Chapter("A", "c\n### S\nd")>> }
SearchTitles == {"A"}
SearchNewContents == {"n", "n\n## B\nn"}
Queries == {"", " ", "c", "C c", "cc", "n", "d i"}

\* A document of the project that the modelled calls leave alone, and a
\* file whose frontmatter parse_document rejects.
TwoDoc ==
  FrontmatterDumps([title |-> "Two", keywords |-> <<"kw">>,
                    created |-> 0, updated |-> 0], "c\n\n## T\n\nd C")
BadDoc == [exists |-> TRUE, meta |-> NoMeta, body |-> "c n d"]

\* The corpora before the first modelled call: a project_id the index does
\* not hold, a project that has its main.md only, and a project with a
\* knowledge directory that holds no file, two.md or bad.md.
KnowledgeCorpus(two, bad) ==
  [registered |-> TRUE, exists |-> TRUE, knowledge |-> TRUE,
   files |-> [NoCorpus.files EXCEPT !["two.md"] = two, !["bad.md"] = bad],
   malformed |-> IF bad.exists THEN {"bad.md"} ELSE {}]
Corpora ==
  {NoCorpus, [NoCorpus EXCEPT !.registered = TRUE, !.exists = TRUE],
   KnowledgeCorpus(NoDoc, NoDoc), KnowledgeCorpus(TwoDoc, NoDoc),
   KnowledgeCorpus(NoDoc, BadDoc)}

\* The orders in which knowledge_dir.glob("*.md") can yield the files.
GlobOrders(dir) ==
  LET present == {n \in CorpusNames : dir.files[n].exists} IN
  {md_files \in [1..Cardinality(present) -> present] :
     \A i, j \in 1..Cardinality(present) :
        md_files[i] = md_files[j] => i = j}

\* get_project_directory at the start of a tool: a project_id the index does
\* not hold is written to the index, and what auto_commit raises after that
\* reaches the tool's "except Exception".
Resolved(dir) == [dir EXCEPT !.registered = TRUE]
ResolveRaises(dir) == ~dir.registered /\ ~AutoCommitReturns(git)

RECURSIVE SumMatchCounts(_)
SumMatchCounts(results) ==
  IF Len(results) = 0 THEN 0
  ELSE Head(results).match_count + SumMatchCounts(Tail(results))

\* search_knowledge: the response, a record with the keys of the dict.
search_knowledge(dir, md_files, query) ==
  IF ResolveRaises(dir)
  THEN [success |-> FALSE, results |-> <<>>, error |-> GitError]
  ELSE IF ~dir.exists
  THEN [success |-> TRUE, results |-> <<>>, message |-> "Project not found"]
  ELSE LET results == search_documents(dir, md_files, query) IN
       [success |-> TRUE,
        total_documents |-> Len(results),
        total_matches |-> SumMatchCounts(results),
        results |-> results]

SearchCall(op, query, chapter_title, new_content, md_files, resp) ==
  [op |-> op, query |-> query, chapters |-> <<>>,
   chapter_title |-> chapter_title, new_content |-> new_content,
   pre |-> corpus, md_files |-> md_files, resp |-> resp]

\* The tool search_knowledge(project_id, query).
SearchKnowledge(query) ==
  /\ clock <= MaxSearchCalls
  /\ clock' = clock + 1
  /\ corpus' = Resolved(corpus)
  /\ \E md_files \in GlobOrders(corpus) :
       slast' = SearchCall("search_knowledge", query, "", "", md_files,
                           search_knowledge(corpus, md_files, query))
  /\ UNCHANGED <<git, notSearch>>

\* The tool create_knowledge_file for the filename doc.md: the knowledge
\* directory is made before the exists check.
SearchCreate(introduction, chapters) ==
  /\ clock <= MaxSearchCalls
  /\ clock' = clock + 1
  /\ IF ResolveRaises(corpus)
     THEN /\ corpus' = Resolved(corpus)
          /\ slast' = SearchCall("create_knowledge_file", "", "", "", <<>>,
                                 Failure(GitError))
     ELSE \E out \in {CreateOutcome(corpus.files["doc.md"], "doc.md",
                                    introduction, <<"kw">>, chapters)} :
            /\ corpus' = [corpus EXCEPT !.registered = TRUE,
                                        !.exists = TRUE,
                                        !.knowledge = TRUE,
                                        !.files["doc.md"] = out.file]
            /\ slast' = [SearchCall("create_knowledge_file", "", "", "",
                                    <<>>, out.resp)
                            EXCEPT !.chapters = chapters]
  /\ UNCHANGED <<git, notSearch>>

\* The tool update_chapter for the filename doc.md.
SearchUpdateChapter(chapter_title, new_content) ==
  /\ clock <= MaxSearchCalls
  /\ clock' = clock + 1
  /\ IF ResolveRaises(corpus)
     THEN /\ corpus' = Resolved(corpus)
          /\ slast' = SearchCall("update_chapter", "", chapter_title,
                                 new_content, <<>>, Failure(GitError))
     ELSE \E out \in {UpdateOutcome(corpus.files["doc.md"], "doc.md",
                                    chapter_title, new_content, None)} :
            /\ corpus' = [corpus EXCEPT !.registered = TRUE,
                                        !.files["doc.md"] = out.file]
            /\ slast' = SearchCall("update_chapter", "", chapter_title,
                                   new_content, <<>>, out.resp)
  /\ UNCHANGED <<git, notSearch>>

SearchInit ==
  /\ corpus \in Corpora
  /\ slast = [NoSearchCall EXCEPT !.pre = corpus]
  /\ git \in GitOutcomes
  /\ clock = 1
  /\ doc = NoDoc
  /\ last = NoCall
  /\ WriteIdle
  /\ PathIdle
  /\ IndexIdle
  /\ MainIdle

SearchNext ==
  \/ \E query \in Queries : SearchKnowledge(query)
  \/ \E introduction \in SearchIntroductions,
        chapters \in SearchChapterLists :
       SearchCreate(introduction, chapters)
  \/ \E chapter_title \in SearchTitles, new_content \in SearchNewContents :
       SearchUpdateChapter(chapter_title, new_content)

SpecSearch == SearchInit /\ [][SearchNext]_vars

(***************************************************************************)
(* Claims about the document tools                                         *)
(***************************************************************************)

\* The chapters of the file before and after the last call.
Before == parse_chapters(parse_document(last.pre).body)
After == parse_chapters(parse_document(doc).body)

UpdateSucceeded == last.op = "update_chapter" /\ last.resp.success

\* A chapter as a reader compares it: title, level and content, the content
\* up to surrounding whitespace.
Shown(chapter) ==
  [title |-> chapter.title, level |-> chapter.level,
   content |-> Strip(chapter.content)]

ShownAll(chapters) == [k \in 1..Len(chapters) |-> Shown(chapters[k])]

\* Whether the sequence a is b with some elements left out.
RECURSIVE IsSubsequence(_, _)
IsSubsequence(a, b) ==
  IF Len(a) = 0 THEN TRUE
  ELSE IF Len(b) = 0 THEN FALSE
  ELSE IF Head(a) = Head(b) THEN IsSubsequence(Tail(a), Tail(b))
  ELSE IsSubsequence(a, Tail(b))

\* The lines of a body before its first heading line.
RECURSIVE LinesBeforeHeading(_)
LinesBeforeHeading(lines) ==
  IF Len(lines) = 0 \/ HeaderLevel(Head(lines)) > 0 THEN <<>>
  ELSE <<Head(lines)>> \o LinesBeforeHeading(Tail(lines))

\* The text of a body that precedes its first chapter heading.
TextBeforeChapters(body) == Join(LinesBeforeHeading(Split(body, "\n")), "\n")

\* C4: update_chapter called with a chapter_title that no chapter of the
\* document has returns the failure "Chapter not found: <title>" and leaves
\* the file as it was, metadata and 'updated' timestamp included.
C4_NotFoundLeavesFile ==
  ( /\ last.op = "update_chapter"
    /\ last.pre.exists
    /\ \A k \in 1..Len(Before) : Before[k].title # last.args.chapter_title )
  => /\ last.resp = Failure("Chapter not found: " \o last.args.chapter_title)
     /\ doc = last.pre

\* A document with chapters was asked for a chapter it does not have.
C4_Witness ==
  /\ last.op = "update_chapter"
  /\ last.pre.exists
  /\ Len(Before) > 0
  /\ \A k \in 1..Len(Before) : Before[k].title # last.args.chapter_title
  /\ ~last.resp.success

\* C5: after a successful update_chapter on title T every chapter whose
\* title differs from T has the title, level and content it had before, these
\* chapters keep their order, and every metadata field but 'updated' keeps
\* its value. Stated in the reading most favourable to the code: contents
\* are compared up to surrounding whitespace, and chapters that the new
\* content itself opens may stand between the old ones.
C5_OtherChaptersKept ==
  UpdateSucceeded =>
    LET Other(chapter) == chapter.title # last.args.chapter_title IN
    /\ IsSubsequence(ShownAll(SelectSeq(Before, Other)),
                     ShownAll(SelectSeq(After, Other)))
    /\ doc.meta = [last.pre.meta EXCEPT !.updated = doc.meta.updated]

\* C6: when several chapters have the title T, update_chapter(T) replaces
\* the content of the first of them only; every later chapter titled T keeps
\* its content (compared up to surrounding whitespace, in updates that leave
\* the number of chapters as it was).
C6_OnlyFirstReplaced ==
  (UpdateSucceeded /\ Len(After) = Len(Before)) =>
    \A k \in 1..Len(Before) :
      ( /\ Before[k].title = last.args.chapter_title
        /\ \E j \in 1..(k - 1) : Before[j].title = last.args.chapter_title )
      => Shown(After[k]) = Shown(Before[k])

\* C7: after a successful update_chapter the chapters listing reports for the
\* updated chapter the summary new_summary when one was supplied, and the
\* summary the chapter had before otherwise (in updates that leave the number
\* of chapters as it was).
C7_SummaryNotRecomputed ==
  (UpdateSucceeded /\ Len(After) = Len(Before)) =>
    \A k \in 1..Len(Before) :
      ( /\ Before[k].title = last.args.chapter_title
        /\ \A j \in 1..(k - 1) : Before[j].title # last.args.chapter_title )
      => list_chapters_resource(doc)[k].summary =
           IF last.args.new_summary # None THEN last.args.new_summary
           ELSE Before[k].summary

\* C8: after a successful update_chapter the text that preceded the first
\* chapter heading is still the text that precedes the first chapter
\* heading (compared up to surrounding whitespace).
C8_IntroductionKept ==
  UpdateSucceeded =>
    Strip(TextBeforeChapters(parse_document(doc).body)) =
      Strip(TextBeforeChapters(parse_document(last.pre).body))

\* C9: when the change tracking fails (git exits non-zero, the storage is no
\* repository, git cannot be started), a create_knowledge_file,
\* update_chapter or delete_knowledge_file whose file change has been applied
\* still reports success.
C9_GitFailureStillSuccess ==
  ( /\ last.op \in {"create_knowledge_file", "update_chapter",
                    "delete_knowledge_file"}
    /\ git # "ok"
    /\ doc # last.pre )
  => last.resp.success

(***************************************************************************)
(* Claims about the write protocol                                         *)
(***************************************************************************)

\* C1: while write_document replaces a document, every reader of the final
\* path (search, files listing, chapters listing) observes a complete
\* document that a write put at the final path, the previous one or the new
\* one, never a partially written or empty one.
C1_ReadersSeeWholeDocuments ==
  \A p \in Callers :
    (loc[p].op = "read" /\ loc[p].seen # NoContent)
    => /\ loc[p].seen.chunks = DocChunks
       /\ loc[p].seen.ver \in published

\* A reader holds the document open while a writer has written a part of
\* the new document.
C1_Witness ==
  \E p, q \in Callers :
    /\ loc[p].op = "read"
    /\ pc[p] = "read"
    /\ pc[q] = "write"
    /\ inodes[loc[q].wfd].chunks > 0
    /\ inodes[loc[q].wfd].chunks < DocChunks

\* The caller p takes the step.
Stepped(p) == pc'[p] # pc[p] \/ loc'[p] # loc[p]

\* C2: a write_document that fails before the rename leaves the file at the
\* target path as it was, and a target path without a file without one: no
\* step of write_document before os.replace, and no step of a call whose
\* write has failed, changes what is at the target path.
C2_FailedWriteLeavesTarget ==
  [][ \A p \in Callers :
        (Stepped(p) /\ (pc[p] \in {"mktemp", "write"} \/ loc[p].wfailed))
        => (Target' = Target /\ names'[DocName] = names[DocName]) ]_vars

\* A write has failed with a part of the text in the temporary file, and the
\* document is in place.
C2_Witness ==
  \E p \in Callers :
    /\ loc[p].wfailed
    /\ pc[p] = "idle"
    /\ loc[p].wfd # 0
    /\ inodes[loc[p].wfd].chunks > 0
    /\ inodes[loc[p].wfd].chunks < DocChunks
    /\ names[DocName] # 0
    /\ Target.chunks = DocChunks

(***************************************************************************)
(* Claims about caller-supplied filenames                                  *)
(***************************************************************************)

\* The file is inside the project's knowledge directory.
InKnowledgeDir(path) == StartsWith(path, KnowledgeDir \o "/")

\* The filename is absolute or has a traversal sequence.
UnsafeFilename(filename) ==
  StartsWith(filename, "/")
    \/ \E k \in 1..Len(Split(filename, "/")) : Split(filename, "/")[k] = ".."

\* C3: update_chapter, delete_knowledge_file and the chapters resource make
\* file system calls only on files inside the project's knowledge directory,
\* and a filename that is absolute or has a traversal sequence is rejected
\* before any file system call.
C3_FilenameStaysInKnowledgeDir ==
  plast.op \in {"update_chapter", "delete_knowledge_file",
                "list_chapters_resource"}
  => /\ \A path \in plast.accessed : InKnowledgeDir(path)
     /\ \A path \in Paths :
          tree[path] # plast.pre[path] => InKnowledgeDir(path)
     /\ UnsafeFilename(plast.filename)
          => (plast.accessed = {} /\ ~plast.resp.success)

\* The filename without a trailing ".md" in any letter case.
WithoutMd(filename) ==
  IF Len(filename) >= 3
       /\ Lower(SubSeq(filename, Len(filename) - 2, Len(filename))) = ".md"
  THEN SubSeq(filename, 1, Len(filename) - 3)
  ELSE filename

\* C13: create_knowledge_file makes its file system calls on the direct
\* child slugify(filename without a trailing ".md") + ".md" of the project's
\* knowledge directory and changes no other file; that name has no path
\* separator, no ".." and no doubled ".md" suffix.
C13_CreateStoresSlugifiedName ==
  plast.op = "create_knowledge_file" =>
    LET name == slugify(WithoutMd(plast.filename)) \o ".md"
        path == KnowledgeDir \o "/" \o name
    IN /\ plast.accessed = {path}
       /\ \A q \in Paths : tree[q] # plast.pre[q] => q = path
       /\ plast.resp.success => tree[path].exists
       /\ ~Contains(name, "/")
       /\ ~Contains(name, "\\")
       /\ ~Contains(name, "..")
       /\ ~Contains(name, ".md.md")

\* create_knowledge_file stored a document for a filename with a traversal
\* sequence and for one with a doubled suffix.
C13_Witness ==
  /\ plast.op = "create_knowledge_file"
  /\ plast.filename = "a.md.md"
  /\ plast.resp.success
  /\ ~InitialTree[KnowledgeDir \o "/main.md"].exists
  /\ plast.pre[CreatePath("../main.md")].exists
  /\ tree[KnowledgeDir \o "/main.md"].exists
  /\ ~plast.pre[KnowledgeDir \o "/a-md.md"].exists
  /\ tree[KnowledgeDir \o "/a-md.md"].exists

(***************************************************************************)
(* Claims about the project index                                          *)
(***************************************************************************)

\* C10: when several callers concurrently resolve project identifiers that
\* the index does not hold yet, no identifier is given two directory names
\* and no directory name is given to two identifiers: two returned pairs
\* have the same identifier exactly when they have the same directory name.
C10_OneDirectoryPerIdentifier ==
  \A a, b \in given : (a[1] = b[1]) <=> (a[2] = b[2])

\* C11: over get_project_directory calls made one at a time, the index on
\* disk maps distinct identifiers to distinct directory names, every
\* returned pair is in the index, and an identifier is returned the same
\* directory name by every call.
C11_SequentialIndexInjective ==
  /\ \A a, b \in read_project_index : (a[2] = b[2]) => (a[1] = b[1])
  /\ given \subseteq read_project_index
  /\ \A a, b \in given : (a[1] = b[1]) => (a[2] = b[2])

\* Two identifiers with the same slug were registered one after the other,
\* and an identifier was resolved a second time.
C11_Witness ==
  /\ \A p \in Callers : ipc[p] = "idle"
  /\ icalls = MaxIndexCalls
  /\ \E a, b \in given :
       a[1] # b[1] /\ slugify(a[1]) = slugify(b[1]) /\ a[2] # b[2]

(***************************************************************************)
(* Claims about the main instructions                                      *)
(***************************************************************************)

\* A project_id that holds a traversal sequence, is an absolute path or
\* holds a backslash.
UnsafeProjectId(project_id) ==
  \/ Contains(project_id, "..")
  \/ StartsWith(project_id, "/")
  \/ Contains(project_id, "\\")

\* C12: get_project_main and update_project_main called with a project_id
\* that contains a traversal sequence, an absolute path or backslashes are
\* blocked: get_project_main returns exists=false with an error field,
\* update_project_main returns success=false with an error field, and no
\* main.md is written.
C12_UnsafeProjectIdBlocked ==
  (mlast.op # "none" /\ UnsafeProjectId(mlast.project_id)) =>
    /\ mlast.resp.error # None
    /\ ~mlast.resp.exists
    /\ ~mlast.resp.success
    /\ storage.mains = mlast.pre

(***************************************************************************)
(* Claims about search                                                     *)
(***************************************************************************)

\* The last call was a search_knowledge that searched the documents.
Searched ==
  /\ slast.op = "search_knowledge"
  /\ slast.resp.success
  /\ "total_documents" \in DOMAIN slast.resp

\* The body of a searched file.
BodyOf(name) == parse_document(slast.pre.files[name]).body

\* The keywords of the last query, each once.
KeywordSet == {Keywords(slast.query)[i] : i \in 1..Len(Keywords(slast.query))}

\* The number of occurrences of keyword in text without regard to letter
\* case, overlapping ones included.
Count(text, keyword) ==
  Cardinality({i \in 0..(Len(text) - Len(keyword)) :
                 SubSeq(Lower(text), i + 1, i + Len(keyword)) = keyword})

\* The bucket records of a document record whose chapter field is empty.
EmptyTitled(record) ==
  {j \in 1..Len(record.matching_chapters) :
     record.matching_chapters[j].chapter = ""}

\* C14: for a document that has chapters, a record with an empty chapter
\* field holds snippets only for keywords that occur in the text before the
\* first chapter heading, one per occurrence when the query names each
\* keyword once, and there is no such record when no text precedes the first
\* heading.
C14_PreChapterBucketScope ==
  Searched =>
    \A i \in 1..Len(slast.resp.results) :
      LET record == slast.resp.results[i]
          body == BodyOf(record.file)
          before == TextBeforeChapters(body)
      IN Len(parse_chapters(body)) > 0 =>
           /\ Strip(before) = "" => EmptyTitled(record) = {}
           /\ \A j \in EmptyTitled(record) :
                \A k \in DOMAIN record.matching_chapters[j].match_context :
                  /\ Count(before, k) > 0
                  /\ Len(Keywords(slast.query)) = Cardinality(KeywordSet)
                       => Len(record.matching_chapters[j].match_context[k])
                            = Count(before, k)

\* The keywords of a list, each at its first place.
RECURSIVE Distinct(_, _)
Distinct(keywords, seen) ==
  IF Len(keywords) = 0 THEN <<>>
  ELSE (IF Head(keywords) \in seen THEN <<>> ELSE <<Head(keywords)>>)
       \o Distinct(Tail(keywords), seen \cup {Head(keywords)})

\* C15: search treats the keywords of the query as a set: the result is the
\* result of the query that names each lower-cased keyword once.
C15_KeywordsAreASet ==
  Searched =>
    slast.resp.results =
      search_documents(slast.pre, slast.md_files,
                       Join(Distinct(Keywords(slast.query), {}), " "))

\* The chapters of a body that have the title.
Titled(body, title) ==
  {k \in 1..Len(parse_chapters(body)) : parse_chapters(body)[k].title = title}

\* C16: a record with a chapter title holds only keywords found inside a
\* chapter of that title, and keywords found in the text before the first
\* chapter heading are reported in a record with an empty chapter field.
C16_ChapterAndBodyMatchesApart ==
  Searched =>
    \A i \in 1..Len(slast.resp.results) :
      LET record == slast.resp.results[i]
          body == BodyOf(record.file)
          chapters == parse_chapters(body)
          before == TextBeforeChapters(body)
      IN /\ \A j \in 1..Len(record.matching_chapters) :
              LET bucket == record.matching_chapters[j] IN
              bucket.chapter # "" =>
                \A k \in DOMAIN bucket.match_context :
                  \E c \in Titled(body, bucket.chapter) :
                    Count(chapters[c].content, k) > 0
         /\ (Len(chapters) > 0
               /\ \E k \in KeywordSet : Count(before, k) > 0)
              => EmptyTitled(record) # {}

\* C17: every successful search_knowledge response has total_documents, the
\* number of document records, and total_matches, the sum of their
\* match_count; the match_count of a record is the number of its bucket
\* records and at least 1.
C17_TotalsInEverySuccess ==
  (slast.op = "search_knowledge" /\ slast.resp.success) =>
    /\ {"total_documents", "total_matches"} \subseteq DOMAIN slast.resp
    /\ slast.resp.total_documents = Len(slast.resp.results)
    /\ slast.resp.total_matches = SumMatchCounts(slast.resp.results)
    /\ \A i \in 1..Len(slast.resp.results) :
         /\ slast.resp.results[i].match_count
              = Len(slast.resp.results[i].matching_chapters)
         /\ slast.resp.results[i].match_count >= 1

\* The corpus without the files parse_document rejects, and the files that
\* glob yields without them.
WithoutMalformed(dir) ==
  [dir EXCEPT !.files = [n \in CorpusNames |->
                           IF n \in dir.malformed THEN NoDoc ELSE @[n]],
              !.malformed = {}]
RECURSIVE WellFormed(_, _)
WellFormed(dir, md_files) ==
  IF Len(md_files) = 0 THEN <<>>
  ELSE (IF Head(md_files) \in dir.malformed THEN <<>>
        ELSE <<Head(md_files)>>) \o WellFormed(dir, Tail(md_files))

\* C18: a search of a corpus with a file that parse_document rejects answers
\* what the search of the corpus without that file answers, has no record
\* for the file and reports no error.
C18_MalformedFileSkipped ==
  (slast.op = "search_knowledge" /\ slast.pre.malformed # {}) =>
    /\ slast.resp =
         search_knowledge(WithoutMalformed(slast.pre),
                          WellFormed(slast.pre, slast.md_files), slast.query)
    /\ \A i \in 1..Len(slast.resp.results) :
         slast.resp.results[i].file \notin slast.pre.malformed
    /\ slast.resp.success
    /\ "error" \notin DOMAIN slast.resp

\* A search found a document of a corpus that also holds a file that
\* parse_document rejects, for a keyword the text of that file holds.
C18_Witness ==
  /\ Searched
  /\ slast.pre.malformed = {"bad.md"}
  /\ slast.pre.files["doc.md"].exists
  /\ slast.md_files = <<"bad.md", "doc.md">>
  /\ Count(slast.pre.files["bad.md"].body, "c") > 0
  /\ "c" \in KeywordSet
  /\ Len(slast.resp.results) = 1

\* The keyword occurs in no file of the corpus.
Unused(dir, keyword) ==
  \A n \in CorpusNames :
    dir.files[n].exists => Count(parse_document(dir.files[n]).body, keyword) = 0

\* C19: when update_chapter has replaced the content of chapter T, the next
\* call, a search for a keyword that occurs in the new content and occurred
\* nowhere in the corpus before the update, returns one document record
\* with one bucket record, titled T.
C19_SearchFindsUpdatedChapter ==
  [][ ( /\ slast.op = "update_chapter"
        /\ slast.resp.success
        /\ slast'.op = "search_knowledge"
        /\ Len(Keywords(slast'.query)) = 1
        /\ Count(slast.new_content, Keywords(slast'.query)[1]) > 0
        /\ Unused(slast.pre, Keywords(slast'.query)[1]) )
      => /\ slast'.resp.success
         /\ Len(slast'.resp.results) = 1
         /\ Len(slast'.resp.results[1].matching_chapters) = 1
         /\ slast'.resp.results[1].matching_chapters[1].chapter
              = slast.chapter_title ]_vars

(***************************************************************************)
(* Claims about the chapters resource                                      *)
(***************************************************************************)

\* C20: after create_knowledge_file succeeds with the chapters c1..cn, the
\* chapters resource of the file lists n chapters with the titles of c1..cn
\* in that order, each at level 2.
C20_ResourceListsCreatedChapters ==
  (slast.op = "create_knowledge_file" /\ slast.resp.success) =>
    LET listed == list_chapters_resource(corpus.files["doc.md"])
        chapters == slast.chapters
    IN /\ Len(listed) = Len(chapters)
       /\ \A k \in 1..Len(chapters) :
            k <= Len(listed) =>
              listed[k].title = chapters[k].title /\ listed[k].level = 2

(***************************************************************************)
(* Claims on deleted documents                                             *)
(***************************************************************************)

\* delete_knowledge_file of the caller q has returned success, and q has
\* started no call since.
DeleteSucceeded(q) ==
  /\ loc[q].op = "delete_knowledge_file"
  /\ pc[q] = "idle"
  /\ loc[q].resp.success

\* C21: after delete_knowledge_file succeeded for the document, a search or
\* files listing finds no such document while nothing creates it again (no
\* create_knowledge_file runs in SpecRead): when the read opens the
\* document's path, there is no file.
C21_DeletedDocumentNotFound ==
  [][\A p, q \in Callers :
       (/\ DeleteSucceeded(q)
        /\ loc[p].op = "read"
        /\ pc[p] = "open"
        /\ pc'[p] # "open")
       => (loc'[p].resp = Ok("no document") /\ pc'[p] = "idle")]_vars

(***************************************************************************)
(* Claims on concurrent writers                                            *)
(***************************************************************************)

\* The caller p takes the step of the place `place` of its tool call.
Steps(p, place) == pc[p] = place /\ pc'[p] # place

\* C22: with update_chapter calls running concurrently, the file at the
\* document's path is always the whole document of the call that renamed
\* last, never a mixture: os.replace of an update_chapter puts exactly the
\* document that call wrote at the path, and no step other than a rename or
\* an unlink changes the file at the path.
C22_LastWriterWins ==
  [][/\ \A p \in Callers :
          (Steps(p, "replace") /\ loc[p].op = "update_chapter")
          => Target' = Content(loc[p].call, DocChunks)
     /\ Target' # Target
          => \E p \in Callers : Steps(p, "replace") \/ Steps(p, "unlink")
    ]_vars

\* Two update_chapter calls that both read the document of the initial
\* state have both renamed and returned success, and the file at the path
\* is the document of one of them.
C22_Witness ==
  \E p, q \in Callers :
    /\ p # q
    /\ \A r \in {p, q} :
         /\ loc[r].op = "update_chapter"
         /\ pc[r] = "idle"
         /\ loc[r].resp.success
         /\ loc[r].seen = Content(0, DocChunks)
    /\ {loc[p].call, loc[q].call} \subseteq published
    /\ Target \in {Content(loc[p].call, DocChunks),
                   Content(loc[q].call, DocChunks)}

(***************************************************************************)
(* Claims on the document text                                             *)
(***************************************************************************)

\* C23: parse_document of the text write_document produced returns exactly
\* the metadata and exactly the body that were written, the body without
\* any normalisation.
C23_WriteParseRoundTrip ==
  last.op = "parse_document"
  => last.resp = [metadata |-> last.args.metadata,
                  body |-> last.args.content]

\* The index of the first chapter of the title in a chapter list, 0 when
\* there is none.
FirstTitled(chapters, title) ==
  IF \E k \in 1..Len(chapters) : chapters[k].title = title
  THEN CHOOSE k \in 1..Len(chapters) :
         /\ chapters[k].title = title
         /\ \A j \in 1..(k - 1) : chapters[j].title # title
  ELSE 0

\* C24: update_chapter keeps the heading line of the chapter it updates:
\* after a successful update the chapter stands at its place with the title
\* and the heading level (2, 3 or 4) it had before.
C24_HeadingLineKept ==
  UpdateSucceeded
  => LET k == FirstTitled(Before, last.args.chapter_title) IN
     /\ k > 0
     /\ Len(After) >= k
     /\ After[k].title = Before[k].title
     /\ After[k].level = Before[k].level

(***************************************************************************)
(* Claims on parse_chapters                                                *)
(***************************************************************************)

\* The lines of the parsed body, and the chapters parse_chapters returned.
ParsedLines == Split(last.args.content, "\n")
Parsed == last.resp

\* A heading line that opens a chapter: 2 to 4 "#", whitespace, and at
\* least one more character.
Qualifying(line) == HeaderLevel(line) > 0

\* The qualifying heading lines among the lines from i on, in their order.
RECURSIVE Headings(_, _)
Headings(lines, i) ==
  IF i > Len(lines) THEN <<>>
  ELSE (IF Qualifying(lines[i]) THEN <<lines[i]>> ELSE <<>>)
       \o Headings(lines, i + 1)

\* C25: parse_chapters returns one chapter per qualifying heading line, in
\* document order, each with the level (2 to 4) that is the number of its
\* heading markers and with a non-empty title; lines of 1 or of 5 and more
\* markers open no chapter, and an empty or blank body and a body without a
\* qualifying heading give the empty list.
C25_OneChapterPerHeading ==
  last.op = "parse_chapters"
  => LET headings == Headings(ParsedLines, 1) IN
     /\ Len(Parsed) = Len(headings)
     /\ \A k \in 1..Len(Parsed) :
          /\ Parsed[k].level = LeadingHashes(headings[k])
          /\ Parsed[k].level \in 2..4
          /\ Parsed[k].title = Strip(Suffix(headings[k], Parsed[k].level))
          /\ Parsed[k].title # ""
     /\ \A i \in 1..Len(ParsedLines) :
          LeadingHashes(ParsedLines[i]) \notin 2..4
          => ~Qualifying(ParsedLines[i])
     /\ Strip(last.args.content) = "" => Parsed = <<>>

\* The number of lines before the first qualifying heading line.
RECURSIVE PreHeading(_, _)
PreHeading(lines, i) ==
  IF i > Len(lines) \/ Qualifying(lines[i]) THEN i - 1
  ELSE PreHeading(lines, i + 1)

\* The number of lines of the contents of the chapters from k on.
RECURSIVE ContentLines(_, _)
ContentLines(chapters, k) ==
  IF k > Len(chapters) THEN 0
  ELSE Len(Split(chapters[k].content, "\n")) + ContentLines(chapters, k + 1)

\* C29: the chapters of parse_chapters partition the body from its first
\* qualifying heading line to its end: the contents hold as many lines as
\* the body has from that heading on, each content starts with its heading
\* line and has no other qualifying heading, and the lines before the first
\* heading followed by the contents in order, joined by newlines, are the
\* body.
C29_ChaptersPartitionBody ==
  last.op = "parse_chapters"
  => LET pre == PreHeading(ParsedLines, 1) IN
     /\ ContentLines(Parsed, 1) = Len(ParsedLines) - pre
     /\ \A k \in 1..Len(Parsed) :
          LET content_lines == Split(Parsed[k].content, "\n") IN
          /\ Qualifying(content_lines[1])
          /\ \A j \in 2..Len(content_lines) : ~Qualifying(content_lines[j])
     /\ Join(SubSeq(ParsedLines, 1, pre)
               \o [k \in 1..Len(Parsed) |-> Parsed[k].content], "\n")
        = last.args.content

\* A body with a line before its first heading and two chapters was parsed.
C29_Witness ==
  /\ last.op = "parse_chapters"
  /\ last.args.content = "t\n## A\n### B"
  /\ Len(Parsed) = 2
  /\ Parsed[2].content = "### B"

\* C26: once delete_knowledge_file has reported success, the file stays
\* absent until a create_knowledge_file: while a delete has returned success
\* and the path has no file, the only step that puts a file at the path is
\* the rename of a create_knowledge_file call.
C26_DeletedStaysAbsent ==
  [][((\E q \in Callers : DeleteSucceeded(q))
      /\ names[DocName] = 0
      /\ names'[DocName] # 0)
     => \E p \in Callers :
          Steps(p, "replace") /\ loc[p].op = "create_knowledge_file"]_vars

\* C27: create_knowledge_file never replaces an existing document: a call
\* that finds the file at its exists check fails and takes no further step,
\* and the rename of a create_knowledge_file call never meets a file at the
\* path, so of two concurrent creates of one name at most one succeeds.
C27_CreateNeverReplaces ==
  [][\A p \in Callers :
       loc[p].op = "create_knowledge_file"
       => /\ (Steps(p, "exists") /\ names[DocName] # 0)
             => (pc'[p] = "idle" /\ ~loc'[p].resp.success)
          /\ Steps(p, "replace") => names[DocName] = 0]_vars

(***************************************************************************)
(* Claims on the read-only tools                                           *)
(***************************************************************************)

\* C28: a read-only operation leaves the storage tree unchanged: a call of
\* get_project_main, also one with a project identifier the index does not
\* hold, adds no entry to the project index and creates or changes no file.
C28_ReadOnlyLeavesStorage ==
  [][(clock' # clock /\ mlast'.op = "get_project_main")
     => storage' = storage]_vars

(***************************************************************************)
(* Claims on repeated updates                                              *)
(***************************************************************************)

\* C30: update_chapter is idempotent on the body: when a successful
\* update_chapter is followed at once by a successful update_chapter of the
\* same title, content and summary, the second call leaves the body and the
\* list of chapters as the first call left them.
C30_UpdateIdempotent ==
  [][(/\ UpdateSucceeded
      /\ clock' # clock
      /\ last'.op = "update_chapter"
      /\ last'.resp.success
      /\ last'.args = last.args)
     => /\ doc'.body = doc.body
        /\ parse_chapters(parse_document(doc').body) = After]_vars

====
